---- MODULE Spec2Model ----
(***************************************************************************)
(* Model of the goa design package: the API definition graph               *)
(* (design/api.go), its sorted enumerations, path composition, response    *)
(* merge and ResourceDefinition.Finalize.                                  *)
(*                                                                         *)
(* A Go string is a sequence of one-character strings, so that path        *)
(* cleaning, wildcard extraction and sorting work on characters as the     *)
(* code does.  A Go map is a function whose DOMAIN is its key set; a nil   *)
(* pointer to an AttributeDefinition is the record NilAtt.                 *)
(***************************************************************************)
EXTENDS Integers, Sequences, FiniteSets, TLC

\* ------------------------------------------------------------------------
\* Strings
\* ------------------------------------------------------------------------

\* The characters the model uses, in ascending byte order (sort.Strings and
\* Go's < on strings compare bytes).
Alphabet ==
    << " ", "\"", "*", "+", "-", ".", "/",
       "0", "1", "2", "3", "4", "5", "6", "7", "8", "9", ":", ";", "=",
       "A", "B", "C", "D", "E", "F", "G", "H", "I", "J", "K", "L", "M",
       "N", "O", "P", "Q", "R", "S", "T", "U", "V", "W", "X", "Y", "Z", "_",
       "a", "b", "c", "d", "e", "f", "g", "h", "i", "j", "k", "l", "m",
       "n", "o", "p", "q", "r", "s", "t", "u", "v", "w", "x", "y", "z" >>

CharCode(c) == CHOOSE i \in 1..Len(Alphabet) : Alphabet[i] = c

\* The character class [a-zA-Z0-9_] of WildcardRegex.
IsNameChar(c) == c \notin {" ", "\"", "*", "+", "-", ".", "/", ":", ";", "="}

\* Go's s < t on strings: bytewise lexicographic order.
RECURSIVE StrLess(_, _)
StrLess(s, t) ==
    IF t = <<>> THEN FALSE
    ELSE IF s = <<>> THEN TRUE
    ELSE IF s[1] # t[1] THEN CharCode(s[1]) < CharCode(t[1])
    ELSE StrLess(Tail(s), Tail(t))

\* strings.HasPrefix(s, prefix)
HasPrefix(s, prefix) ==
    /\ Len(s) >= Len(prefix)
    /\ SubSeq(s, 1, Len(prefix)) = prefix

\* ------------------------------------------------------------------------
\* Path cleaning (path.Clean, path.Join, httprouter.CleanPath)
\* ------------------------------------------------------------------------

\* Index one past the end of the path element that starts at r (the inner
\* loop "for ; r < n && path[r] != '/'; r++").
RECURSIVE ElemEnd(_, _)
ElemEnd(p, r) ==
    IF r > Len(p) \/ p[r] = "/" THEN r ELSE ElemEnd(p, r + 1)

\* out.w-- ; for out.w > dotdot && out.index(out.w) != '/' { out.w-- }: the
\* new write index, counted as the number of characters kept; w is the index
\* after the first decrement.
RECURSIVE BackUpW(_, _, _)
BackUpW(out, w, floor) ==
    IF w > floor /\ out[w + 1] # "/" THEN BackUpW(out, w - 1, floor) ELSE w

\* The buffer after dropping its last element (and the slash before it),
\* never going below the first floor characters.
BackUp(out, floor) == SubSeq(out, 1, BackUpW(out, Len(out) - 1, floor))

\* The main loop of path.Clean; r is the (1-based) read index, out the
\* output buffer, dotdot the length of the prefix that ".." may not remove.
RECURSIVE CleanLoop(_, _, _, _, _)
CleanLoop(p, r, out, dotdot, rooted) ==
    LET n == Len(p) IN
    IF r > n THEN out
    ELSE IF p[r] = "/" THEN CleanLoop(p, r + 1, out, dotdot, rooted)
    ELSE IF p[r] = "." /\ (r = n \/ p[r + 1] = "/")
         THEN CleanLoop(p, r + 1, out, dotdot, rooted)
    ELSE IF p[r] = "." /\ p[r + 1] = "." /\ (r + 1 = n \/ p[r + 2] = "/")
         THEN IF Len(out) > dotdot
              THEN CleanLoop(p, r + 2,
                             BackUp(out, dotdot),
                             dotdot, rooted)
              ELSE IF ~rooted
              THEN LET o2 == (IF Len(out) > 0 THEN Append(out, "/") ELSE out)
                             \o <<".", ".">>
                   IN  CleanLoop(p, r + 2, o2, Len(o2), rooted)
              ELSE CleanLoop(p, r + 2, out, dotdot, rooted)
    ELSE LET e  == ElemEnd(p, r)
             o1 == IF (rooted /\ Len(out) # 1) \/ (~rooted /\ Len(out) # 0)
                   THEN Append(out, "/") ELSE out
         IN  CleanLoop(p, e, o1 \o SubSeq(p, r, e - 1), dotdot, rooted)

\* path.Clean
Clean(p) ==
    IF p = <<>> THEN <<".">>
    ELSE LET rooted == p[1] = "/"
             res    == IF rooted THEN CleanLoop(p, 2, <<"/">>, 1, TRUE)
                                 ELSE CleanLoop(p, 1, <<>>, 0, FALSE)
         IN  IF res = <<>> THEN <<".">> ELSE res

\* path.Join(a, b): empty elements are ignored, the rest joined with "/" and
\* cleaned; the empty string when every element is empty.
Join(a, b) ==
    IF a = <<>> /\ b = <<>> THEN <<>>
    ELSE IF a = <<>> THEN Clean(b)
    ELSE IF b = <<>> THEN Clean(a)
    ELSE Clean(a \o <<"/">> \o b)

\* The main loop of httprouter.CleanPath; buf always starts with "/".
RECURSIVE CleanPathLoop(_, _, _, _)
CleanPathLoop(p, r, buf, trailing) ==
    LET n == Len(p) IN
    IF r > n
    THEN IF trailing /\ Len(buf) > 1 THEN Append(buf, "/") ELSE buf
    ELSE IF p[r] = "/" THEN CleanPathLoop(p, r + 1, buf, trailing)
    ELSE IF p[r] = "." /\ r = n THEN CleanPathLoop(p, r + 1, buf, TRUE)
    ELSE IF p[r] = "." /\ p[r + 1] = "/"
         THEN CleanPathLoop(p, r + 1, buf, trailing)
    ELSE IF p[r] = "." /\ p[r + 1] = "." /\ (r + 1 = n \/ p[r + 2] = "/")
         THEN CleanPathLoop(p, r + 2,
                  IF Len(buf) > 1
                  THEN BackUp(buf, 1)
                  ELSE buf,
                  trailing)
    ELSE LET e  == ElemEnd(p, r)
             b1 == IF Len(buf) > 1 THEN Append(buf, "/") ELSE buf
         IN  CleanPathLoop(p, e, b1 \o SubSeq(p, r, e - 1), trailing)

\* httprouter.CleanPath: the result always begins with "/", a trailing slash
\* is kept, "" becomes "/".
CleanPath(p) ==
    IF p = <<>> THEN <<"/">>
    ELSE LET n == Len(p)
         IN  CleanPathLoop(p, IF p[1] = "/" THEN 2 ELSE 1, <<"/">>,
                           n > 2 /\ p[n] = "/")

\* ------------------------------------------------------------------------
\* Wildcards
\* ------------------------------------------------------------------------

\* Index one past the longest run of name characters starting at i.
RECURSIVE NameEnd(_, _)
NameEnd(p, i) ==
    IF i <= Len(p) /\ IsNameChar(p[i]) THEN NameEnd(p, i + 1) ELSE i

\* Faulty variant: the expression lacks the leading slash, (?::|\*)(name).
RECURSIVE WildcardsFromAnywhere(_, _)
WildcardsFromAnywhere(p, i) ==
    IF i + 1 > Len(p) THEN <<>>
    ELSE IF p[i] \in {":", "*"} /\ IsNameChar(p[i + 1])
         THEN LET e == NameEnd(p, i + 1)
              IN  <<SubSeq(p, i + 1, e - 1)>> \o WildcardsFromAnywhere(p, e)
         ELSE WildcardsFromAnywhere(p, i + 1)

\* WildcardRegex.FindAllStringSubmatch(path, -1), first group of each match:
\* /(?::|\*)([a-zA-Z0-9_]+), leftmost non-overlapping matches from index i.
RECURSIVE WildcardsFrom(_, _)
WildcardsFrom(p, i) ==
    IF i + 2 > Len(p) THEN <<>>
    ELSE IF p[i] = "/" /\ p[i + 1] \in {":", "*"} /\ IsNameChar(p[i + 2])
         THEN LET e == NameEnd(p, i + 2)
              IN  <<SubSeq(p, i + 2, e - 1)>> \o WildcardsFrom(p, e)
         ELSE WildcardsFrom(p, i + 1)

ExtractWildcards(p) == WildcardsFrom(p, 1)

\* The set of elements of a sequence.
Range(s) == {s[i] : i \in DOMAIN s}

\* ------------------------------------------------------------------------
\* Maps and sorting
\* ------------------------------------------------------------------------

\* m[k] = v on a Go map.
Put(m, k, v) == [x \in DOMAIN m \cup {k} |-> IF x = k THEN v ELSE m[x]]

\* delete(m, k) on a Go map.
Delete(m, k) == [x \in DOMAIN m \ {k} |-> m[x]]

\* The orders in which "for n := range m" may collect the keys S of a map:
\* Go leaves the iteration order of a map unspecified.
KeyOrders(S) == {s \in [1..Cardinality(S) -> S] : Range(s) = S}

\* One step of insertion: k put before the first element greater than it.
RECURSIVE SortedInsert(_, _)
SortedInsert(sorted, k) ==
    IF sorted = <<>> THEN <<k>>
    ELSE IF StrLess(k, sorted[1]) THEN <<k>> \o sorted
    ELSE <<sorted[1]>> \o SortedInsert(Tail(sorted), k)

\* Faulty variant: the names are left in the order of collection.
SortStringsOmitted(names) == names

\* sort.Strings(names)
RECURSIVE SortStrings(_)
SortStrings(names) ==
    IF names = <<>> THEN <<>>
    ELSE SortedInsert(SortStrings(SubSeq(names, 1, Len(names) - 1)),
                      names[Len(names)])

\* The keys of a map, collected in some order and sorted.
SortedKeys(m) == SortStrings(CHOOSE s \in KeyOrders(DOMAIN m) : TRUE)

\* ------------------------------------------------------------------------
\* Definitions (design/api.go, type declarations)
\* ------------------------------------------------------------------------

\* A nil *AttributeDefinition.
NilAtt == [nil |-> TRUE, obj |-> <<>>, NonZeroAttributes |-> {}]

\* &AttributeDefinition{Type: o}: an object attribute whose fields are the
\* keys of o; NonZeroAttributes is the key set of the Go map (nil is empty).
Att(o) == [nil |-> FALSE, obj |-> o, NonZeroAttributes |-> {}]

\* A nil *ResponseDefinition.
NilResponse ==
    [nil |-> TRUE, Name |-> <<>>, Status |-> 0, Description |-> <<>>,
     MediaType |-> <<>>, Headers |-> NilAtt]

\* A ResponseDefinition; the empty string and status 0 are the unset values.
Response(name, status, description, mediaType, headers) ==
    [nil |-> FALSE, Name |-> name, Status |-> status,
     Description |-> description, MediaType |-> mediaType,
     Headers |-> headers]

\* An ActionDefinition; Routes is the sequence of the routes' Path fields.
Action(routes, responses, params) ==
    [Routes |-> routes, Responses |-> responses, Params |-> params,
     QueryParams |-> NilAtt]

\* A ResourceDefinition.
Resource(basePath, baseParams, parentName, canonical, versions, actions, responses) ==
    [BasePath |-> basePath, BaseParams |-> baseParams,
     ParentName |-> parentName, CanonicalActionName |-> canonical,
     APIVersions |-> versions, Actions |-> actions, Responses |-> responses]

\* A version scope handed to a visitor of IterateVersions: the embedded
\* default APIVersionDefinition, or Design.APIVersions[v].
DefaultScope == [default |-> TRUE, Version |-> <<>>]
NamedScope(v) == [default |-> FALSE, Version |-> v]

\* version.BasePath
ScopeBasePath(d, ver) ==
    IF ver.default THEN d.BasePath ELSE d.APIVersions[ver.Version].BasePath

\* The scopes IterateVersions visits, in its order: the default scope, then
\* the named versions sorted by version string.
RECURSIVE NamedScopes(_)
NamedScopes(versions) ==
    IF versions = <<>> THEN <<>>
    ELSE <<NamedScope(versions[1])>> \o NamedScopes(Tail(versions))

VersionOrder(d) == <<DefaultScope>> \o NamedScopes(SortedKeys(d.APIVersions))

\* ------------------------------------------------------------------------
\* Path composition
\* ------------------------------------------------------------------------

\* Faulty variant: the prefix test asks for one slash too many.
IsAbsoluteThreeSlashes(path) == HasPrefix(path, <<"/", "/", "/">>)

\* RouteDefinition.IsAbsolute
IsAbsolute(path) == HasPrefix(path, <<"/", "/">>)

\* ResourceDefinition.Parent is not nil.
HasParent(d, r) ==
    /\ d.Resources[r].ParentName # <<>>
    /\ d.Resources[r].ParentName \in DOMAIN d.Resources

\* The name ResourceDefinition.CanonicalAction looks up.
CanonicalName(d, r) ==
    IF d.Resources[r].CanonicalActionName = <<>>
    THEN <<"s", "h", "o", "w">>
    ELSE d.Resources[r].CanonicalActionName

\* ResourceDefinition.CanonicalAction is not nil.
HasCanonicalAction(d, r) == CanonicalName(d, r) \in DOMAIN d.Resources[r].Actions

\* path.Join of one element.
JoinOne(a) == IF a = <<>> THEN <<>> ELSE Clean(a)

\* Faulty variant: the parent resource is ignored.
ResourceFullPathNoParent(d, r, ver) ==
    CleanPath(Join(ScopeBasePath(d, ver), d.Resources[r].BasePath))

RECURSIVE ResourceFullPath(_, _, _)
RECURSIVE RouteFullPath(_, _, _, _)

\* Faulty variant: the base path and the resource's path are concatenated,
\* neither joined nor cleaned.
ResourceFullPathConcatenated(d, r, ver) ==
    ScopeBasePath(d, ver) \o d.Resources[r].BasePath

\* Faulty variant: a parent without a usable canonical action is treated as
\* no parent, so that the scope's base path is used.
ResourceFullPathFallsBack(d, r, ver) ==
    LET res == d.Resources[r]
        p   == res.ParentName
        usable == /\ HasParent(d, r)
                  /\ HasCanonicalAction(d, p)
                  /\ Len(d.Resources[p].Actions[CanonicalName(d, p)].Routes) > 0
        basePath ==
            IF usable
            THEN JoinOne(RouteFullPath(d, p,
                     d.Resources[p].Actions[CanonicalName(d, p)].Routes[1], ver))
            ELSE ScopeBasePath(d, ver)
    IN  CleanPath(Join(basePath, res.BasePath))

\* ResourceDefinition.FullPath(version) of the resource named r.
ResourceFullPath(d, r, ver) ==
    LET res == d.Resources[r]
        p   == res.ParentName
        basePath ==
            IF HasParent(d, r)
            THEN IF HasCanonicalAction(d, p)
                 THEN LET routes == d.Resources[p].Actions[CanonicalName(d, p)].Routes
                      IN  IF Len(routes) > 0
                          THEN JoinOne(RouteFullPath(d, p, routes[1], ver))
                          ELSE <<>>
                 ELSE <<>>
            ELSE ScopeBasePath(d, ver)
    IN  CleanPath(Join(basePath, res.BasePath))

\* RouteDefinition.FullPath(version) of a route with the given Path of an
\* action of the resource named r.
RouteFullPath(d, r, path, ver) ==
    IF IsAbsolute(path)
    THEN CleanPath(Tail(path))
    ELSE CleanPath(Join(ResourceFullPath(d, r, ver), path))

\* RouteDefinition.Params(version)
RouteParams(d, r, path, ver) == ExtractWildcards(RouteFullPath(d, r, path, ver))

\* ActionDefinition.HasAbsoluteRoutes
HasAbsoluteRoutes(act) == \A i \in DOMAIN act.Routes : IsAbsolute(act.Routes[i])

\* ------------------------------------------------------------------------
\* Response merge
\* ------------------------------------------------------------------------

\* Faulty variant: a header of other replaces the receiver's header of the
\* same name.
MergeHeadersOtherWins(rh, oh) ==
    IF oh.nil THEN rh
    ELSE IF DOMAIN oh.obj = {} THEN rh
    ELSE LET base == IF rh.nil THEN Att(<<>>) ELSE rh
         IN  [base EXCEPT !.obj =
                 [n \in DOMAIN base.obj \cup DOMAIN oh.obj |->
                     IF n \in DOMAIN oh.obj THEN oh.obj[n] ELSE base.obj[n]]]

\* The header part of ResponseDefinition.Merge.
MergeHeaders(rh, oh) ==
    IF oh.nil THEN rh
    ELSE IF DOMAIN oh.obj = {} THEN rh
    ELSE LET base == IF rh.nil THEN Att(<<>>) ELSE rh
         IN  [base EXCEPT !.obj =
                 [n \in DOMAIN base.obj \cup DOMAIN oh.obj |->
                     IF n \in DOMAIN base.obj THEN base.obj[n] ELSE oh.obj[n]]]

\* Faulty variant: the status of other always wins.
MergeOverwritesStatus(r, other) ==
    IF other.nil THEN r
    ELSE [r EXCEPT
            !.Name        = IF r.Name = <<>> THEN other.Name ELSE @,
            !.Status      = other.Status,
            !.Description = IF r.Description = <<>> THEN other.Description ELSE @,
            !.MediaType   = IF r.MediaType = <<>> THEN other.MediaType ELSE @,
            !.Headers     = MergeHeaders(r.Headers, other.Headers)]

\* ResponseDefinition.Merge: the receiver after r.Merge(other).
Merge(r, other) ==
    IF other.nil THEN r
    ELSE [r EXCEPT
            !.Name        = IF r.Name = <<>> THEN other.Name ELSE @,
            !.Status      = IF r.Status = 0 THEN other.Status ELSE @,
            !.Description = IF r.Description = <<>> THEN other.Description ELSE @,
            !.MediaType   = IF r.MediaType = <<>> THEN other.MediaType ELSE @,
            !.Headers     = MergeHeaders(r.Headers, other.Headers)]

\* ------------------------------------------------------------------------
\* ResourceDefinition.Finalize
\* ------------------------------------------------------------------------

\* Faulty variant: the API's response is merged in before the resource's.
MergedResponseApiFirst(d, r, resp, name) ==
    LET m1 == IF name \in DOMAIN d.Responses
              THEN Merge(resp, d.Responses[name]) ELSE resp
        m2 == IF name \in DOMAIN d.Resources[r].Responses
              THEN Merge(m1, d.Resources[r].Responses[name]) ELSE m1
    IN  IF name \in DOMAIN d.DefaultResponses
        THEN Merge(m2, d.DefaultResponses[name]) ELSE m2

\* Step 1 for the response resp named name of an action of resource r: the
\* same-named responses of the resource, of the API and of the built-in
\* defaults are merged in, in that order.
MergedResponse(d, r, resp, name) ==
    LET m1 == IF name \in DOMAIN d.Resources[r].Responses
              THEN Merge(resp, d.Resources[r].Responses[name]) ELSE resp
        m2 == IF name \in DOMAIN d.Responses
              THEN Merge(m1, d.Responses[name]) ELSE m1
    IN  IF name \in DOMAIN d.DefaultResponses
        THEN Merge(m2, d.DefaultResponses[name]) ELSE m2

\* The <<route index, version index>> pairs in the order of step 2: routes
\* outside, IterateVersions inside.
RoutesThenVersions(nr, nv) ==
    [k \in 1..(nr * nv) |-> <<((k - 1) \div nv) + 1, ((k - 1) % nv) + 1>>]

\* Faulty variant: step 3 walks the routes under the default scope only.
VersionsThenRoutesDefaultOnly(nr, nv) == [k \in 1..nr |-> <<k, 1>>]

\* The pairs in the order of step 3: IterateVersions outside, routes inside.
VersionsThenRoutes(nr, nv) ==
    [k \in 1..(nr * nv) |-> <<((k - 1) % nr) + 1, ((k - 1) \div nr) + 1>>]

\* The wildcard names met when walking the pairs in order; wcs[i][j] is
\* ExtractWildcards(route.FullPath(ver)) for route i and version j.
RECURSIVE WildcardsOfPairs(_, _)
WildcardsOfPairs(wcs, pairs) ==
    IF pairs = <<>> THEN <<>>
    ELSE wcs[pairs[1][1]][pairs[1][2]] \o WildcardsOfPairs(wcs, Tail(pairs))

\* Faulty variant: a wildcard is set to String whether or not it is declared.
RECURSIVE AddImplicitOverwrites(_, _)
AddImplicitOverwrites(params, wcs) ==
    IF wcs = <<>> THEN params
    ELSE LET all == IF params.nil THEN Att(<<>>) ELSE params
         IN  AddImplicitOverwrites(
                 [all EXCEPT !.obj = Put(Delete(all.obj, wcs[1]), wcs[1], "String")],
                 Tail(wcs))

\* Faulty variant: only the first wildcard of the walk is looked at.
AddImplicitFirstOnly(params, wcs) ==
    IF wcs = <<>> THEN params
    ELSE LET all == IF params.nil THEN Att(<<>>) ELSE params
         IN  IF wcs[1] \in DOMAIN all.obj THEN all
             ELSE [all EXCEPT !.obj = Put(all.obj, wcs[1], "String")]

\* Step 2, the body of "for _, wc := range wcs": a nil parameter set becomes
\* an empty object, and a wildcard that is no key of it is added as a String.
RECURSIVE AddImplicit(_, _)
AddImplicit(params, wcs) ==
    IF wcs = <<>> THEN params
    ELSE LET all == IF params.nil THEN Att(<<>>) ELSE params
             wc  == wcs[1]
             nxt == IF wc \in DOMAIN all.obj THEN all
                    ELSE [all EXCEPT !.obj = Put(all.obj, wc, "String")]
         IN  AddImplicit(nxt, Tail(wcs))

\* Faulty variant: the name is deleted from the parameters, not from their
\* duplicate.
RECURSIVE MarkPathParamsDeletesParam(_, _, _)
MarkPathParamsDeletesParam(params, queryParams, pnames) ==
    IF pnames = <<>> THEN [Params |-> params, QueryParams |-> queryParams]
    ELSE MarkPathParamsDeletesParam(
            [params EXCEPT !.NonZeroAttributes = @ \cup {pnames[1]},
                           !.obj = Delete(@, pnames[1])],
            queryParams, Tail(pnames))

\* Faulty variant: the name is marked non-zero but stays a query parameter.
RECURSIVE MarkPathParamsKeepsQuery(_, _, _)
MarkPathParamsKeepsQuery(params, queryParams, pnames) ==
    IF pnames = <<>> THEN [Params |-> params, QueryParams |-> queryParams]
    ELSE MarkPathParamsKeepsQuery(
            [params EXCEPT !.NonZeroAttributes = @ \cup {pnames[1]}],
            queryParams, Tail(pnames))

\* Step 3, the body of "for _, pname := range pnames": the name is marked
\* non-zero on the parameters and deleted from the query parameters.
RECURSIVE MarkPathParams(_, _, _)
MarkPathParams(params, queryParams, pnames) ==
    IF pnames = <<>> THEN [Params |-> params, QueryParams |-> queryParams]
    ELSE MarkPathParams(
            [params EXCEPT !.NonZeroAttributes = @ \cup {pnames[1]}],
            [queryParams EXCEPT !.obj = Delete(@, pnames[1])],
            Tail(pnames))

\* DupAtt(att): a copy of the attribute that shares no map with att, so
\* that deleting a key of the copy leaves att alone.  The marker set of the
\* copy is read by nothing here and is left empty.
DupAtt(att) == IF att.nil THEN att ELSE [att EXCEPT !.NonZeroAttributes = {}]

\* The visitor Finalize gives to IterateActions, applied to action a of
\* resource r: the action as Finalize leaves it.
FinalizeAction(d, r, a) ==
    LET act       == d.Resources[r].Actions[a]
        vers      == VersionOrder(d)
        nr        == Len(act.Routes)
        nv        == Len(vers)
        \* Steps 2 and 3 change no path, so both read the same wildcards.
        wcs       == [i \in 1..nr |-> [j \in 1..nv |->
                          RouteParams(d, r, act.Routes[i], vers[j])]]
        responses == [n \in DOMAIN act.Responses |->
                          MergedResponse(d, r, act.Responses[n], n)]
        params    == AddImplicit(act.Params,
                         WildcardsOfPairs(wcs, RoutesThenVersions(nr, nv)))
        split     == IF params.nil
                     THEN [Params |-> params, QueryParams |-> act.QueryParams]
                     ELSE MarkPathParams(
                              [params EXCEPT !.NonZeroAttributes = {}],
                              DupAtt(params),
                              WildcardsOfPairs(wcs, VersionsThenRoutes(nr, nv)))
    IN  [act EXCEPT !.Responses   = responses,
                    !.Params      = split.Params,
                    !.QueryParams = split.QueryParams]

\* Faulty variant: the parameters of the action are also stored on the
\* canonical action of the parent resource.
RECURSIVE FinalizeActionsDeclaresOnParent(_, _, _)
FinalizeActionsDeclaresOnParent(d, r, names) ==
    IF names = <<>> THEN d
    ELSE LET act == FinalizeAction(d, r, names[1])
             p   == d.Resources[r].ParentName
             d1  == [d EXCEPT !.Resources[r].Actions[names[1]] = act]
             d2  == IF HasParent(d, r) /\ HasCanonicalAction(d, p)
                    THEN [d1 EXCEPT
                            !.Resources[p].Actions[CanonicalName(d, p)].Params = act.Params]
                    ELSE d1
         IN  FinalizeActionsDeclaresOnParent(d2, r, Tail(names))

\* IterateActions with the visitor of Finalize over the given action names.
RECURSIVE FinalizeActions(_, _, _)
FinalizeActions(d, r, names) ==
    IF names = <<>> THEN d
    ELSE FinalizeActions(
            [d EXCEPT !.Resources[r].Actions[names[1]] = FinalizeAction(d, r, names[1])],
            r, Tail(names))

\* ResourceDefinition.Finalize: the graph after r.Finalize().
Finalize(d, r) == FinalizeActions(d, r, SortedKeys(d.Resources[r].Actions))

\* ------------------------------------------------------------------------
\* Derived parameter views
\* ------------------------------------------------------------------------

\* The set of all wildcard names of a sequence of paths' parameters.
RECURSIVE NameSet(_)
NameSet(names) == IF names = <<>> THEN {} ELSE {names[1]} \cup NameSet(Tail(names))

\* The first loop of ActionDefinition.PathParams: the keys of obj, the
\* wildcards of all the routes of action a of resource r under ver.
PathParamsOfRoutes(d, r, a, ver) ==
    LET routes == d.Resources[r].Actions[a].Routes
    IN  UNION {Range(RouteParams(d, r, routes[i], ver)) : i \in DOMAIN routes}

\* The keys of an attribute after res.Merge(other): Merge adds the keys of
\* other, and a nil other adds nothing.
MergedKeys(keys, other) == IF other.nil THEN keys ELSE keys \cup DOMAIN other.obj

\* PathParams panics on a nil dereference when a route of the action has a
\* wildcard under ver while a.Params is nil, and when some resource on the
\* parent chain of r has a parent without canonical action.
RECURSIVE PathParamsPanics(_, _, _, _)
PathParamsPanics(d, r, a, ver) ==
    \/ /\ d.Resources[r].Actions[a].Params.nil
       /\ PathParamsOfRoutes(d, r, a, ver) # {}
    \/ /\ ~HasAbsoluteRoutes(d.Resources[r].Actions[a])
       /\ HasParent(d, r)
       /\ LET p == d.Resources[r].ParentName
          IN  \/ ~HasCanonicalAction(d, p)
              \/ PathParamsPanics(d, p, CanonicalName(d, p), ver)

\* The keys of ActionDefinition.PathParams(ver) for action a of resource r,
\* where it does not panic.
RECURSIVE PathParams(_, _, _, _)
PathParams(d, r, a, ver) ==
    LET res  == d.Resources[r]
        own  == PathParamsOfRoutes(d, r, a, ver)
        base == MergedKeys(MergedKeys(own, res.BaseParams), d.BaseParams)
    IN  IF HasAbsoluteRoutes(res.Actions[a]) THEN own
        ELSE IF HasParent(d, r)
             THEN base \cup PathParams(d, res.ParentName,
                                       CanonicalName(d, res.ParentName), ver)
             ELSE base


\* ------------------------------------------------------------------------
\* Media type identifiers (mime.ParseMediaType, mime.FormatMediaType)
\* ------------------------------------------------------------------------

UpperCase ==
    << "A", "B", "C", "D", "E", "F", "G", "H", "I", "J", "K", "L", "M",
       "N", "O", "P", "Q", "R", "S", "T", "U", "V", "W", "X", "Y", "Z" >>

LowerCase ==
    << "a", "b", "c", "d", "e", "f", "g", "h", "i", "j", "k", "l", "m",
       "n", "o", "p", "q", "r", "s", "t", "u", "v", "w", "x", "y", "z" >>

\* strings.ToLower
ToLower(s) ==
    [i \in 1..Len(s) |->
        IF \E k \in DOMAIN UpperCase : UpperCase[k] = s[i]
        THEN LowerCase[CHOOSE k \in DOMAIN UpperCase : UpperCase[k] = s[i]]
        ELSE s[i]]

\* strings.TrimLeftFunc(v, unicode.IsSpace); the space is the only white
\* space among the characters of the model.
RECURSIVE TrimLeft(_)
TrimLeft(v) == IF v # <<>> /\ v[1] = " " THEN TrimLeft(Tail(v)) ELSE v

RECURSIVE TrimRight(_)
TrimRight(v) ==
    IF v # <<>> /\ v[Len(v)] = " " THEN TrimRight(SubSeq(v, 1, Len(v) - 1)) ELSE v

\* strings.TrimSpace
TrimSpace(v) == TrimRight(TrimLeft(v))

\* strings.Index(s, c) for a one-character c, counted from 1; 0 stands for
\* Go's -1.
IndexOf(s, c) ==
    IF \E i \in DOMAIN s : s[i] = c
    THEN CHOOSE i \in DOMAIN s : s[i] = c /\ \A j \in 1..(i - 1) : s[j] # c
    ELSE 0

\* s[k:] for a k counted from 0.
Drop(s, k) == SubSeq(s, k + 1, Len(s))

\* mime's isTokenChar: no space and none of the tspecials of RFC 2045 (of
\* which the model's characters have the quote, the slash, the colon, the
\* semicolon and the equals sign).
IsTokenChar(c) == c \notin {" ", "\"", "/", ":", ";", "="}

\* mime's isToken
IsToken(s) == s # <<>> /\ \A i \in DOMAIN s : IsTokenChar(s[i])

\* The length of the token consumeToken takes from the front of v.
RECURSIVE TokenLen(_)
TokenLen(v) ==
    IF v = <<>> \/ ~IsTokenChar(v[1]) THEN 0 ELSE 1 + TokenLen(Tail(v))

\* mime's checkMediaTypeDisposition: a token, or token "/" token.
CheckMediaTypeDisposition(s) ==
    LET n    == TokenLen(s)
        rest == Drop(s, n)
    IN  IF n = 0 THEN FALSE
        ELSE IF rest = <<>> THEN TRUE
        ELSE IF rest[1] # "/" THEN FALSE
        ELSE LET m == TokenLen(Tail(rest))
             IN  m > 0 /\ Drop(Tail(rest), m) = <<>>

\* mime's consumeValue: a token, or a quoted string up to the next quote
\* (the model's characters have no backslash and no line break).
ConsumeValue(v) ==
    IF v = <<>> THEN [value |-> <<>>, rest |-> v]
    ELSE IF v[1] # "\""
         THEN [value |-> SubSeq(v, 1, TokenLen(v)), rest |-> Drop(v, TokenLen(v))]
         ELSE LET q == IndexOf(Tail(v), "\"")
              IN  IF q = 0 THEN [value |-> <<>>, rest |-> v]
                  ELSE [value |-> SubSeq(Tail(v), 1, q - 1),
                        rest  |-> Drop(Tail(v), q)]

\* mime's consumeMediaParam: "; name = value" from the front of v; an empty
\* param says that there is none.
ConsumeMediaParam(v) ==
    LET none == [param |-> <<>>, value |-> <<>>, rest |-> v]
        r1   == TrimLeft(v)
    IN  IF ~HasPrefix(r1, <<";">>) THEN none
        ELSE LET r2 == TrimLeft(Tail(r1))
                 n  == TokenLen(r2)
                 r3 == TrimLeft(Drop(r2, n))
             IN  IF n = 0 THEN none
                 ELSE IF ~HasPrefix(r3, <<"=">>) THEN none
                 ELSE LET r4 == TrimLeft(Tail(r3))
                          cv == ConsumeValue(r4)
                      IN  IF cv.value = <<>> /\ cv.rest = r4 THEN none
                          ELSE [param |-> ToLower(SubSeq(r2, 1, n)),
                                value |-> cv.value, rest |-> cv.rest]

\* The parameter loop of mime.ParseMediaType: a lone trailing semicolon is
\* ignored, anything else that is no parameter and a parameter given twice
\* are errors.
RECURSIVE ParseParams(_, _)
ParseParams(v, params) ==
    LET t == TrimLeft(v)
        p == ConsumeMediaParam(t)
    IN  IF t = <<>> THEN [err |-> FALSE, params |-> params]
        ELSE IF p.param = <<>>
             THEN IF TrimSpace(p.rest) = <<";">>
                  THEN [err |-> FALSE, params |-> params]
                  ELSE [err |-> TRUE, params |-> <<>>]
        ELSE IF p.param \in DOMAIN params THEN [err |-> TRUE, params |-> <<>>]
        ELSE ParseParams(p.rest, Put(params, p.param, p.value))

\* mime.ParseMediaType
ParseMediaType(v) ==
    LET i         == IndexOf(v, ";")
        mediatype == TrimSpace(ToLower(IF i = 0 THEN v ELSE SubSeq(v, 1, i - 1)))
        failed    == [err |-> TRUE, mediatype |-> <<>>, params |-> <<>>]
    IN  IF ~CheckMediaTypeDisposition(mediatype) THEN failed
        ELSE LET pp == ParseParams(IF i = 0 THEN <<>> ELSE Drop(v, i - 1), <<>>)
             IN  IF pp.err THEN failed
                 ELSE [err |-> FALSE, mediatype |-> mediatype, params |-> pp.params]

\* The parameters as mime.FormatMediaType writes them, names sorted; a
\* value that is no token is quoted.
RECURSIVE FormatParams(_, _)
FormatParams(attrs, param) ==
    IF attrs = <<>> THEN <<>>
    ELSE LET value == param[attrs[1]]
         IN  <<";", " ">> \o ToLower(attrs[1]) \o <<"=">>
             \o (IF IsToken(value) THEN value ELSE <<"\"">> \o value \o <<"\"">>)
             \o FormatParams(Tail(attrs), param)

\* mime.FormatMediaType.  The result is empty when the type or a parameter
\* name is no token; for a type without slash the library returns the empty
\* string up to Go 1.10 and the type itself since (bareTypes).
FormatMediaType(t, param, bareTypes) ==
    LET slash == IndexOf(t, "/")
        major == SubSeq(t, 1, slash - 1)
        sub   == Drop(t, slash)
        attrs == SortedKeys(param)
    IN  IF \E i \in DOMAIN attrs : ~IsToken(attrs[i]) THEN <<>>
        ELSE IF slash = 0
             THEN IF bareTypes /\ IsToken(t)
                  THEN ToLower(t) \o FormatParams(attrs, param)
                  ELSE <<>>
        ELSE IF ~IsToken(major) \/ ~IsToken(sub) THEN <<>>
        ELSE ToLower(major) \o <<"/">> \o ToLower(sub) \o FormatParams(attrs, param)

\* Faulty variant: the suffix is cut at the last plus sign.
CanonicalIdentifierLastPlus(identifier, bareTypes) ==
    LET p  == ParseMediaType(identifier)
        mt == p.mediatype
        i  == IF \E k \in DOMAIN mt : mt[k] = "+"
              THEN CHOOSE k \in DOMAIN mt :
                       mt[k] = "+" /\ \A j \in (k + 1)..Len(mt) : mt[j] # "+"
              ELSE 0
        id == IF i = 0 THEN mt ELSE SubSeq(mt, 1, i - 1)
    IN  IF p.err THEN identifier
        ELSE FormatMediaType(id, p.params, bareTypes)

\* CanonicalIdentifier: the media type without its suffix, formatted with
\* its parameters; the identifier itself when it does not parse.
CanonicalIdentifier(identifier, bareTypes) ==
    LET p  == ParseMediaType(identifier)
        i  == IndexOf(p.mediatype, "+")
        id == IF i = 0 THEN p.mediatype ELSE SubSeq(p.mediatype, 1, i - 1)
    IN  IF p.err THEN identifier
        ELSE FormatMediaType(id, p.params, bareTypes)

\* Faulty variant: the identifier of the media type is compared as it is.
MatchingMediaTypesRaw(d, id, bareTypes) ==
    {k \in DOMAIN d.MediaTypes :
        d.MediaTypes[k].Identifier = CanonicalIdentifier(id, bareTypes)}

\* The media types the loop of MediaTypeWithIdentifier can stop at: the
\* registered ones whose canonical identifier is that of id.  The map is
\* ranged over in any order, so each of them can be the one returned.
MatchingMediaTypes(d, id, bareTypes) ==
    {k \in DOMAIN d.MediaTypes :
        CanonicalIdentifier(d.MediaTypes[k].Identifier, bareTypes)
            = CanonicalIdentifier(id, bareTypes)}
\* ------------------------------------------------------------------------
\* Bounds and the graphs explored
\* ------------------------------------------------------------------------

\* The largest number of named API versions of a graph.
MaxVersions == 2

\* The largest number of routes of the child resource's action.
MaxRoutes == 2

VersionNameList == << <<"2">>, <<"1", "0">>, <<"1">>, <<"v", "3">> >>

VersionBasePaths == { <<"/", "v">>, <<"/", ":", "v", "e", "r">> }

\* The APIVersions maps: the first n version names, each with a base path.
VersionMaps ==
    UNION { [ {VersionNameList[i] : i \in 1..n} ->
                [BasePath : VersionBasePaths, Responses : {<<>>}] ]
            : n \in 0..MaxVersions }

\* The elements of list whose index is in I, in the order of list.
RECURSIVE Pick(_, _)
Pick(list, I) ==
    IF list = <<>> THEN <<>>
    ELSE Pick(SubSeq(list, 1, Len(list) - 1), I)
         \o (IF Len(list) \in I THEN <<list[Len(list)]>> ELSE <<>>)

\* The subsequences of list of length at most n.
SubSeqsUpTo(list, n) ==
    {Pick(list, I) : I \in {J \in SUBSET DOMAIN list : Cardinality(J) <= n}}

ChildRouteList == << <<"/", ":", "i", "d">>, <<"/", "/", "a", "b", "s", "/", "*", "z", "/">>, <<"/", "l", "i", "s", "t">> >>

\* The parent resource's only action: its name and its Routes.
ParentActions ==
    { [name |-> <<"l", "i", "s", "t">>, routes |-> << <<"/">> >>],
      [name |-> <<"s", "h", "o", "w">>, routes |-> <<>>],
      [name |-> <<"s", "h", "o", "w">>, routes |-> << <<"/", ":", "p", "a", "r", "e", "n", "t", "I", "D">> >>],
      [name |-> <<"s", "h", "o", "w">>, routes |-> << <<"/", ":", "p", "a", "r", "e", "n", "t", "I", "D">>, <<"/", "a", "l", "t", "/", ":", "o", "t", "h", "e", "r">> >>] }

\* The child's ParentName with the parent resource's action: the parent's
\* action varies where the child names the parent.
Families ==
    { [parentName |-> <<"p", "a", "r", "e", "n", "t", "s">>, parentAction |-> pa] : pa \in ParentActions }
    \cup { [parentName |-> n,
            parentAction |-> [name |-> <<"s", "h", "o", "w">>, routes |-> << <<"/", ":", "p", "a", "r", "e", "n", "t", "I", "D">> >>]]
           : n \in { <<>>, <<"g", "h", "o", "s", "t">> } }

\* The declared Params of the child's action.
ChildParams ==
    { NilAtt,
      Att([n \in { <<"i", "d">> } |-> "Integer"]),
      Att([n \in { <<"q">>, <<"v", "e", "r">> } |-> IF n = <<"q">> THEN "String" ELSE "Integer"]) }

\* The API's BasePath with the child's BasePath and BaseParams.
Bases ==
    { [api |-> <<>>, BasePath |-> <<"/", "c", "h", "i", "l", "d", "r", "e", "n">>, BaseParams |-> NilAtt],
      [api |-> <<"/", "a", "p", "i", "/", ":", "o", "r", "g">>, BasePath |-> <<"/", "c", "h", "i", "l", "d", "r", "e", "n">>, BaseParams |-> NilAtt],
      [api |-> <<>>, BasePath |-> <<"k", "i", "d", "s", "/", "/", ":", "k", "i", "d", "/">>,
       BaseParams |-> Att([n \in { <<"k", "i", "d">> } |-> "Integer"])] }

OKResponse(status) == Response(<<"O", "K">>, status, <<>>, <<>>, NilAtt)

\* A graph of two resources, "parents" and "children".
Graph(versions, family, bases, childRoutes, childParams, actionResponses, resourceResponses, apiResponses, defaultResponses) ==
    [BasePath         |-> bases.api,
     BaseParams       |-> NilAtt,
     APIVersions      |-> versions,
     Responses        |-> apiResponses,
     DefaultResponses |-> defaultResponses,
     MediaTypes       |-> <<>>,
     Types            |-> <<>>,
     Resources        |->
        [r \in { <<"p", "a", "r", "e", "n", "t", "s">>, <<"c", "h", "i", "l", "d", "r", "e", "n">> } |->
            IF r = <<"p", "a", "r", "e", "n", "t", "s">>
            THEN Resource(<<"/", "p", "a", "r", "e", "n", "t", "s">>, NilAtt, <<>>, <<>>, <<>>,
                          [a \in {family.parentAction.name} |->
                              Action(family.parentAction.routes, <<>>, NilAtt)],
                          <<>>)
            ELSE Resource(bases.BasePath, bases.BaseParams,
                          family.parentName,
                          <<>>, <<>>,
                          [a \in { <<"s", "h", "o", "w">> } |->
                              Action(childRoutes, actionResponses, childParams)],
                          resourceResponses)]]

\* The graphs of Spec: paths, versions, parents and parameters vary.
PathGraphs ==
    { Graph(versions, family, bases, childRoutes, childParams,
            [n \in { <<"O", "K">> } |-> OKResponse(0)],
            [n \in { <<"O", "K">> } |-> OKResponse(200)], <<>>, <<>>) :
        versions \in VersionMaps, family \in Families, bases \in Bases,
        childRoutes \in SubSeqsUpTo(ChildRouteList, MaxRoutes),
        childParams \in ChildParams }

\* The responses of one scope of SpecResponses: none, or one response named
\* OK whose set fields carry the scope's own values.
LayerResponses(status, tag) ==
    { <<>>,
      [n \in { <<"O", "K">> } |-> Response(<<>>, 0, <<>>, <<>>, NilAtt)],
      [n \in { <<"O", "K">> } |-> Response(<<>>, status, <<>>, <<>>, NilAtt)],
      [n \in { <<"O", "K">> } |-> Response(<<>>, 0, tag, tag, NilAtt)],
      [n \in { <<"O", "K">> } |->
          Response(<<"O", "K">>, status, tag, tag, Att([h \in { <<"L", "o", "c", "a", "t", "i", "o", "n">> } |-> tag]))] }

\* The responses of the action in SpecResponses: OK with every choice of set
\* fields, and NotFound with no field set.
ActionResponses ==
    { [n \in { <<"O", "K">>, <<"N", "o", "t", "F", "o", "u", "n", "d">> } |->
          IF n = <<"O", "K">> THEN Response(name, status, desc, mt, NilAtt)
          ELSE Response(<<>>, 0, <<>>, <<>>, NilAtt)] :
        name \in { <<>>, <<"O", "K">> }, status \in {0, 201},
        desc \in { <<>>, <<"a">> }, mt \in { <<>>, <<"t", "e", "x", "t", "/", "a">> } }

\* The built-in responses: NotFound always, OK as chosen.
WithNotFound(responses) ==
    [n \in DOMAIN responses \cup { <<"N", "o", "t", "F", "o", "u", "n", "d">> } |->
        IF n = <<"N", "o", "t", "F", "o", "u", "n", "d">> THEN Response(<<"N", "o", "t", "F", "o", "u", "n", "d">>, 404, <<>>, <<>>, NilAtt)
        ELSE responses[n]]

\* The graphs of SpecResponses: one path layout, the responses vary.
ResponseGraphs ==
    { Graph(<<>>,
            [parentName |-> <<"p", "a", "r", "e", "n", "t", "s">>,
             parentAction |-> [name |-> <<"s", "h", "o", "w">>, routes |-> << <<"/", ":", "p", "a", "r", "e", "n", "t", "I", "D">> >>]],
            [api |-> <<>>, BasePath |-> <<"/", "c", "h", "i", "l", "d", "r", "e", "n">>, BaseParams |-> NilAtt],
            << <<"/", ":", "i", "d">> >>, NilAtt,
            actionResponses, resourceResponses, apiResponses,
            WithNotFound(defaultResponses)) :
        actionResponses \in ActionResponses,
        resourceResponses \in LayerResponses(202, <<"r">>),
        apiResponses \in LayerResponses(203, <<"g">>),
        defaultResponses \in LayerResponses(200, <<"d">>) }

\* The receivers and arguments of Merge in SpecMerge.
HeaderSets(tag, names) ==
    { NilAtt, Att(<<>>) } \cup { Att([h \in S |-> tag]) : S \in (SUBSET names) \ {{}} }

MergeReceivers ==
    { Response(name, status, desc, mt, headers) :
        name \in { <<>>, <<"O", "K">> }, status \in {0, 200},
        desc \in { <<>>, <<"m", "i", "n", "e">> }, mt \in { <<>>, <<"t", "e", "x", "t", "/", "a">> },
        headers \in HeaderSets(<<"m", "i", "n", "e">>, { <<"E", "T", "a", "g">>, <<"L", "o", "c", "a", "t", "i", "o", "n">> }) }

MergeOthers ==
    { NilResponse } \cup
    { Response(name, status, desc, mt, headers) :
        name \in { <<>>, <<"E", "r", "r", "o", "r">> }, status \in {0, 500},
        desc \in { <<>>, <<"t", "h", "e", "i", "r", "s">> }, mt \in { <<>>, <<"t", "e", "x", "t", "/", "b">> },
        headers \in HeaderSets(<<"t", "h", "e", "i", "r", "s">>, { <<"L", "o", "c", "a", "t", "i", "o", "n">>, <<"V", "a", "r", "y">> }) }

\* The key sets of the maps enumerated in SpecIter.
IterNames == { <<"z", "e", "b", "r", "a">>, <<"a", "p", "p", "l", "e">>, <<"m", "a", "n", "g", "o">> }

ActionNameSets == { {}, { <<"s", "h", "o", "w">> }, { <<"u", "p", "d", "a", "t", "e">>, <<"s", "h", "o", "w">>, <<"S", "h", "o", "w">> } }

\* The APIVersions lists of the resources in SpecIter: none at all, or lists
\* of one and of two versions next to a resource without any; v3 is never
\* a version of the API.
ResourceVersionLists ==
    { [r \in IterNames |-> <<>>],
      [r \in IterNames |->
          IF r = <<"z", "e", "b", "r", "a">> THEN << <<"2">> >>
          ELSE IF r = <<"m", "a", "n", "g", "o">> THEN << <<"1", "0">>, <<"2">>, <<"v", "3">> >> ELSE <<>>] }

\* A graph for the enumerations: resources and API responses keyed by K1,
\* actions, media types, user types and version responses keyed by K2,
\* named versions K3, the resources' version lists V.
IterGraph(K1, K2, K3, V) ==
    [BasePath         |-> <<>>,
     BaseParams       |-> NilAtt,
     APIVersions      |-> [v \in K3 |->
                              [BasePath |-> <<>>,
                               Responses |-> [n \in K2 |-> Response(n, 0, <<>>, <<>>, NilAtt)]]],
     Responses        |-> [n \in K1 |-> Response(n, 0, <<>>, <<>>, NilAtt)],
     DefaultResponses |-> <<>>,
     MediaTypes       |-> [m \in K2 |-> [Identifier |-> m]],
     Types            |-> [t \in K2 |-> [TypeName |-> t]],
     Resources        |->
        [r \in K1 |->
            Resource(<<>>, NilAtt, <<>>, <<>>, V[r],
                     [a \in K2 |-> Action(<<>>, <<>>, NilAtt)], <<>>)]]

IterGraphs ==
    { IterGraph(K1, K2, {VersionNameList[i] : i \in 1..n}, V) :
        K1 \in SUBSET IterNames, K2 \in ActionNameSets, n \in 0..MaxVersions,
        V \in ResourceVersionLists }

\* ------------------------------------------------------------------------
\* Enumerations
\* ------------------------------------------------------------------------

NoError == [nil |-> TRUE, at |-> <<>>]

\* The error the visitor returns for the element x.
Err(x) == [nil |-> FALSE, at |-> x]

\* Faulty variant: the loop goes on after an error and returns the last one.
RECURSIVE VisitLoopContinues(_, _, _)
VisitLoopContinues(order, failing, visited) ==
    IF order = <<>>
    THEN [visited |-> visited,
          err |-> IF \E i \in DOMAIN visited : visited[i] \in failing
                  THEN Err(visited[CHOOSE i \in DOMAIN visited :
                               /\ visited[i] \in failing
                               /\ \A j \in DOMAIN visited :
                                     visited[j] \in failing => j <= i])
                  ELSE NoError]
    ELSE VisitLoopContinues(Tail(order), failing, Append(visited, order[1]))

\* "for _, n := range names { if err := it(...); err != nil { return err } }
\* return nil": the visitor errs on the elements of failing.
RECURSIVE VisitLoop(_, _, _)
VisitLoop(order, failing, visited) ==
    IF order = <<>> THEN [visited |-> visited, err |-> NoError]
    ELSE IF order[1] \in failing
         THEN [visited |-> Append(visited, order[1]), err |-> Err(order[1])]
         ELSE VisitLoop(Tail(order), failing, Append(visited, order[1]))

\* An enumeration of a map: names are the keys as collected from the map,
\* which are sorted and visited.
Enumerate(op, arg, names, failing) ==
    LET run == VisitLoop(SortStrings(names), failing, <<>>)
    IN  [op |-> op, arg |-> arg, names |-> names, failing |-> failing,
         visited |-> run.visited, err |-> run.err]

\* Faulty variant: the default scope is visited after the named versions.
EnumerateVersionsDefaultLast(names, failing) ==
    LET run == VisitLoop(NamedScopes(SortStrings(names)) \o <<DefaultScope>>,
                         failing, <<>>)
    IN  [op |-> "IterateVersions", arg |-> <<>>, names |-> names,
         failing |-> failing, visited |-> run.visited, err |-> run.err]

\* The body of IterateVersions: the default scope is visited first, then
\* the named versions sorted by version string.
EnumerateVersions(names, failing) ==
    LET run == VisitLoop(<<DefaultScope>> \o NamedScopes(SortStrings(names)),
                         failing, <<>>)
    IN  [op |-> "IterateVersions", arg |-> <<>>, names |-> names,
         failing |-> failing, visited |-> run.visited, err |-> run.err]

\* Faulty variant: the empty version is looked up in the list like any other.
SupportsVersionNoDefaultCase(res, version) ==
    \E i \in DOMAIN res.APIVersions : res.APIVersions[i] = version

\* ResourceDefinition.SupportsVersion: the empty version asks for
\* SupportsNoVersion, an empty list; any other must be in the list.
SupportsVersion(res, version) ==
    IF version = <<>> THEN Len(res.APIVersions) = 0
    ELSE \E i \in DOMAIN res.APIVersions : res.APIVersions[i] = version

\* The names APIVersionDefinition.IterateResources collects for the scope
\* ver: the resources that support ver.Version.
SupportedResources(d, ver) ==
    {n \in DOMAIN d.Resources : SupportsVersion(d.Resources[n], ver.Version)}

\* v.Responses for the scope v.
ScopeResponses(d, ver) ==
    IF ver.default THEN d.Responses ELSE d.APIVersions[ver.Version].Responses

\* ------------------------------------------------------------------------
\* State
\* ------------------------------------------------------------------------

VARIABLES
    Design,     \* design.Design, the API definition graph
    built,      \* the graph as the DSL left it, before any Finalize
    finalized,  \* the resources on which Finalize has run
    mergeCall,  \* a call r.Merge(other): receiver, argument, receiver after
    trace,      \* the last enumeration: the visitor's calls and the result
    call,       \* a call of a function of the package: argument and result
    mimeBareTypes, \* whether the mime package of the build formats a type
                \* that has no slash (Go 1.11 and later) or returns ""
    gen         \* Generator.Generate: where it is, err, genfiles, the result

vars == <<Design, built, finalized, mergeCall, trace, call, mimeBareTypes, gen>>

NoMerge == [receiver |-> NilResponse, other |-> NilResponse,
            result |-> NilResponse, called |-> FALSE]

NoCall == [op |-> "none", arg |-> <<>>, result |-> <<>>, again |-> <<>>]

NoGen == [pc |-> "none", files |-> <<>>, err |-> [nil |-> TRUE, at |-> <<>>],
          versionsErr |-> [nil |-> TRUE, at |-> <<>>], genfiles |-> <<>>]

NoTrace == [op |-> "none", arg |-> <<>>, names |-> <<>>, failing |-> {},
            visited |-> <<>>, err |-> NoError]

\* r.Finalize() for the resource named r.
FinalizeResource(r) ==
    /\ Design' = Finalize(Design, r)
    /\ finalized' = finalized \cup {r}
    /\ UNCHANGED <<built, mergeCall, trace, call, mimeBareTypes, gen>>

\* mergeCall.receiver.Merge(mergeCall.other)
MergeResponse ==
    /\ ~mergeCall.called
    /\ mergeCall' = [mergeCall EXCEPT
                        !.result = Merge(mergeCall.receiver, mergeCall.other),
                        !.called = TRUE]
    /\ UNCHANGED <<Design, built, finalized, trace, call, mimeBareTypes, gen>>

\* The enumerations leave the graph alone, so one observed call per
\* behaviour shows all of them: an enumeration is recorded while trace is
\* still NoTrace.  names is the order in which the keys come out of the map.

\* APIDefinition.IterateResources with a visitor that errs on failing
IterateResources(failing) ==
    /\ trace = NoTrace
    /\ \E names \in KeyOrders(DOMAIN Design.Resources) :
          trace' = Enumerate("IterateResources", <<>>, names, failing)
    /\ UNCHANGED <<Design, built, finalized, mergeCall, call, mimeBareTypes, gen>>

\* APIDefinition.IterateMediaTypes
IterateMediaTypes(failing) ==
    /\ trace = NoTrace
    /\ \E names \in KeyOrders(DOMAIN Design.MediaTypes) :
          trace' = Enumerate("IterateMediaTypes", <<>>, names, failing)
    /\ UNCHANGED <<Design, built, finalized, mergeCall, call, mimeBareTypes, gen>>

\* APIDefinition.IterateUserTypes
IterateUserTypes(failing) ==
    /\ trace = NoTrace
    /\ \E names \in KeyOrders(DOMAIN Design.Types) :
          trace' = Enumerate("IterateUserTypes", <<>>, names, failing)
    /\ UNCHANGED <<Design, built, finalized, mergeCall, call, mimeBareTypes, gen>>

\* ResourceDefinition.IterateActions on the resource named r
IterateActions(r, failing) ==
    /\ trace = NoTrace
    /\ \E names \in KeyOrders(DOMAIN Design.Resources[r].Actions) :
          trace' = Enumerate("IterateActions", r, names, failing)
    /\ UNCHANGED <<Design, built, finalized, mergeCall, call, mimeBareTypes, gen>>

\* APIVersionDefinition.IterateResponses on the scope ver
IterateResponses(ver, failing) ==
    /\ trace = NoTrace
    /\ \E names \in KeyOrders(DOMAIN ScopeResponses(Design, ver)) :
          trace' = Enumerate("IterateResponses", ver, names, failing)
    /\ UNCHANGED <<Design, built, finalized, mergeCall, call, mimeBareTypes, gen>>

\* APIVersionDefinition.IterateResources on the scope ver
IterateResourcesOfVersion(ver, failing) ==
    /\ trace = NoTrace
    /\ \E names \in KeyOrders(SupportedResources(Design, ver)) :
          trace' = Enumerate("APIVersionDefinition.IterateResources", ver, names, failing)
    /\ UNCHANGED <<Design, built, finalized, mergeCall, call, mimeBareTypes, gen>>

\* APIDefinition.IterateVersions
IterateVersions(failing) ==
    /\ trace = NoTrace
    /\ \E names \in KeyOrders(DOMAIN Design.APIVersions) :
          trace' = EnumerateVersions(names, failing)
    /\ UNCHANGED <<Design, built, finalized, mergeCall, call, mimeBareTypes, gen>>

\* ------------------------------------------------------------------------
\* Specifications
\* ------------------------------------------------------------------------

\* Finalization of graphs whose paths, versions and parameters vary.
Init ==
    /\ Design \in PathGraphs
    /\ built = Design
    /\ finalized = {}
    /\ mergeCall = NoMerge
    /\ trace = NoTrace
    /\ call = NoCall
    /\ mimeBareTypes = FALSE
    /\ gen = NoGen

Next == \E r \in DOMAIN Design.Resources : FinalizeResource(r)

Spec == Init /\ [][Next]_vars

\* Finalization of graphs whose responses vary.
InitResponses ==
    /\ Design \in ResponseGraphs
    /\ built = Design
    /\ finalized = {}
    /\ mergeCall = NoMerge
    /\ trace = NoTrace
    /\ call = NoCall
    /\ mimeBareTypes = FALSE
    /\ gen = NoGen

SpecResponses == InitResponses /\ [][Next]_vars

\* ResponseDefinition.Merge on every receiver and argument.
InitMerge ==
    /\ Design \in {IterGraph({}, {}, {}, <<>>)}
    /\ built = Design
    /\ finalized = {}
    /\ \E r \in MergeReceivers, o \in MergeOthers :
          mergeCall = [receiver |-> r, other |-> o, result |-> r, called |-> FALSE]
    /\ trace = NoTrace
    /\ call = NoCall
    /\ mimeBareTypes = FALSE
    /\ gen = NoGen

NextMerge == MergeResponse

SpecMerge == InitMerge /\ [][NextMerge]_vars

\* The enumerations, with every map iteration order and every visitor.
InitIter ==
    /\ Design \in IterGraphs
    /\ built = Design
    /\ finalized = {}
    /\ mergeCall = NoMerge
    /\ trace = NoTrace
    /\ call = NoCall
    /\ mimeBareTypes = FALSE
    /\ gen = NoGen

AllScopes == {DefaultScope} \cup {NamedScope(v) : v \in DOMAIN Design.APIVersions}

NextIter ==
    \/ \E failing \in SUBSET DOMAIN Design.Resources : IterateResources(failing)
    \/ \E failing \in SUBSET DOMAIN Design.MediaTypes : IterateMediaTypes(failing)
    \/ \E failing \in SUBSET DOMAIN Design.Types : IterateUserTypes(failing)
    \/ \E r \in DOMAIN Design.Resources :
          \E failing \in SUBSET DOMAIN Design.Resources[r].Actions :
             IterateActions(r, failing)
    \/ \E ver \in AllScopes :
          \E failing \in SUBSET DOMAIN ScopeResponses(Design, ver) :
             IterateResponses(ver, failing)
    \/ \E failing \in SUBSET AllScopes : IterateVersions(failing)
    \/ \E ver \in AllScopes :
          \E failing \in SUBSET DOMAIN Design.Resources :
             IterateResourcesOfVersion(ver, failing)

SpecIter == InitIter /\ [][NextIter]_vars

\* ------------------------------------------------------------------------
\* Calls of the functions of the package
\* ------------------------------------------------------------------------

\* The longest identifier and the longest path that are enumerated
\* character by character.
MaxIdLen == 3

MaxPathLen == 4

\* All strings of at most n of the given characters.
StringsUpTo(chars, n) == UNION {[1..k -> chars] : k \in 0..n}

\* Identifiers: every short string over the characters that matter to the
\* mime package, and longer ones made of a type and parameters.
MediaTypeParts ==
    { <<>>, <<"a">>, <<"a", "/", "b">>, <<"A", "/", "B">>, <<"a", "/", "b", "+", "c">>, <<"a", "+", "b", "/", "c">>, <<"a", "/", "+", "c">>, <<"a", "/", "b", "+">>, <<"+", "a", "/", "b">>,
      <<"a", "/", "b", "+", "c", "+", "d">>, <<"a", " ", "/", "b">>, <<" ", "a", "/", "b", " ">>, <<"a", "/", "b", "/", "c">>, <<"a", "p", "p", "l", "i", "c", "a", "t", "i", "o", "n", "/", "v", "n", "d", ".", "f", "o", "o", "+", "x", "m", "l">> }

ParameterParts ==
    { <<>>, <<";">>, <<" ", ";", " ">>, <<";", " ", "k", "=", "v">>, <<";", "K", "=", "V">>, <<";", " ", "k", "=", "v", "+", "w">>, <<";", " ", "k", "=", "\"", "v", " ", "w", "\"">>,
      <<";", " ", "k", "=", "v", ";", " ", "k", "=", "w">>, <<";", " ", "k">>, <<";", " ", "k", "=">>, <<";", "k", "=", "v", ";", "j", "=", "u">>, <<";", " ", "k", "=", "\"", "\"">>, <<";", "k", "=", "\"", "v">>,
      <<" ", "k", "=", "v">>, <<";", "k", "=", "v", " ", "x">>, <<";", "k", "+", "j", "=", "v", ";">> }

Identifiers ==
    StringsUpTo({"a", "B", "/", "+", ";", "=", " ", "\""}, MaxIdLen)
    \cup {t \o p : t \in MediaTypeParts, p \in ParameterParts}

\* The identifiers of the media types of a design and those looked up.
RegisteredIdentifiers ==
    { <<"a", "p", "p", "l", "i", "c", "a", "t", "i", "o", "n", "/", "v", "n", "d", ".", "f", "o", "o", "+", "x", "m", "l">>, <<"a", "p", "p", "l", "i", "c", "a", "t", "i", "o", "n", "/", "v", "n", "d", ".", "f", "o", "o", "+", "j", "s", "o", "n">>,
      <<"a", "p", "p", "l", "i", "c", "a", "t", "i", "o", "n", "/", "v", "n", "d", ".", "b", "a", "r", "+", "j", "s", "o", "n", ";", " ", "t", "y", "p", "e", "=", "c", "o", "l", "l", "e", "c", "t", "i", "o", "n">>, <<"n", "o", " ", "m", "e", "d", "i", "a", " ", "t", "y", "p", "e">> }

LookupIdentifiers ==
    RegisteredIdentifiers
    \cup { <<"a", "p", "p", "l", "i", "c", "a", "t", "i", "o", "n", "/", "v", "n", "d", ".", "f", "o", "o">>, <<"A", "p", "p", "l", "i", "c", "a", "t", "i", "o", "n", "/", "V", "N", "D", ".", "f", "o", "o", "+", "j", "s", "o", "n">>,
           <<"a", "p", "p", "l", "i", "c", "a", "t", "i", "o", "n", "/", "v", "n", "d", ".", "b", "a", "r">>, <<"a", "p", "p", "l", "i", "c", "a", "t", "i", "o", "n", "/", "v", "n", "d", ".", "b", "a", "r", ";", " ", "T", "Y", "P", "E", "=", "c", "o", "l", "l", "e", "c", "t", "i", "o", "n">>,
           <<"t", "e", "x", "t", "/", "p", "l", "a", "i", "n">> }

\* MediaTypeRoot.IterateSets: every media type of the root is stored in
\* Design.MediaTypes under its canonical identifier.
RECURSIVE RegisterMediaTypes(_, _, _)
RegisterMediaTypes(mediaTypes, root, bareTypes) ==
    IF root = <<>> THEN mediaTypes
    ELSE RegisterMediaTypes(
            Put(mediaTypes, CanonicalIdentifier(root[1], bareTypes),
                [Identifier |-> root[1]]),
            Tail(root), bareTypes)

\* The paths wildcards are extracted from: every short string over the
\* characters that matter to WildcardRegex, and longer ones made of three
\* pieces.
PathPieces ==
    { <<>>, <<"/">>, <<"/", ":", "a">>, <<"/", "*", "b">>, <<"/", "a">>, <<":", "b">>, <<"/", ":">>, <<"/", ":", "a", "-", "b">>, <<"/", "*", "_", "1">>, <<"a", "*", "b">>, <<"/", ":", "B", ":", "c">> }

WildcardPaths ==
    StringsUpTo({"/", ":", "*", "a", "b", "-"}, MaxPathLen)
    \cup {x \o y \o z : x \in PathPieces, y \in PathPieces, z \in PathPieces}

\* CanonicalIdentifier(call.arg), and then CanonicalIdentifier of what it
\* returned.
CanonicalIdentifierCall ==
    /\ call.op \in {"none", "CanonicalIdentifier"}
    /\ call.again = <<>>
    /\ call' = IF call.op = "none"
               THEN [call EXCEPT
                        !.op = "CanonicalIdentifier",
                        !.result = CanonicalIdentifier(call.arg, mimeBareTypes)]
               ELSE [call EXCEPT
                        !.again = <<CanonicalIdentifier(call.result, mimeBareTypes)>>]
    /\ UNCHANGED <<Design, built, finalized, mergeCall, trace, mimeBareTypes, gen>>

\* Design.MediaTypeWithIdentifier(call.arg): nil, or the media type at
\* which the loop over the map stops.
MediaTypeWithIdentifierCall ==
    /\ call.op = "none"
    /\ LET found == MatchingMediaTypes(Design, call.arg, mimeBareTypes)
       IN  IF found = {}
           THEN call' = [call EXCEPT !.op = "MediaTypeWithIdentifier",
                                     !.result = [nil |-> TRUE, Identifier |-> <<>>]]
           ELSE \E k \in found :
                   call' = [call EXCEPT
                              !.op = "MediaTypeWithIdentifier",
                              !.result = [nil |-> FALSE,
                                          Identifier |-> Design.MediaTypes[k].Identifier]]
    /\ UNCHANGED <<Design, built, finalized, mergeCall, trace, mimeBareTypes, gen>>

\* ExtractWildcards(call.arg)
ExtractWildcardsCall ==
    /\ call.op = "none"
    /\ call' = [call EXCEPT !.op = "ExtractWildcards",
                            !.result = ExtractWildcards(call.arg)]
    /\ UNCHANGED <<Design, built, finalized, mergeCall, trace, mimeBareTypes, gen>>

\* CanonicalIdentifier on every identifier, with either mime package.
InitCanonical ==
    /\ Design = IterGraph({}, {}, {}, <<>>)
    /\ built = Design
    /\ finalized = {}
    /\ mergeCall = NoMerge
    /\ trace = NoTrace
    /\ mimeBareTypes \in BOOLEAN
    /\ \E id \in Identifiers : call = [NoCall EXCEPT !.arg = id]
    /\ gen = NoGen

SpecCanonical == InitCanonical /\ [][CanonicalIdentifierCall]_vars

\* MediaTypeWithIdentifier on designs whose media types were registered in
\* any order.
InitLookup ==
    /\ mimeBareTypes \in BOOLEAN
    /\ \E S \in SUBSET RegisteredIdentifiers : \E root \in KeyOrders(S) :
          Design = [IterGraph({}, {}, {}, <<>>) EXCEPT
                       !.MediaTypes = RegisterMediaTypes(<<>>, root, mimeBareTypes)]
    /\ built = Design
    /\ finalized = {}
    /\ mergeCall = NoMerge
    /\ trace = NoTrace
    /\ \E id \in LookupIdentifiers : call = [NoCall EXCEPT !.arg = id]
    /\ gen = NoGen

SpecLookup == InitLookup /\ [][MediaTypeWithIdentifierCall]_vars

\* ExtractWildcards on every path.
InitWildcards ==
    /\ Design = IterGraph({}, {}, {}, <<>>)
    /\ built = Design
    /\ finalized = {}
    /\ mergeCall = NoMerge
    /\ trace = NoTrace
    /\ mimeBareTypes = FALSE
    /\ \E p \in WildcardPaths : call = [NoCall EXCEPT !.arg = p]
    /\ gen = NoGen

SpecWildcards == InitWildcards /\ [][ExtractWildcardsCall]_vars

\* Design.Resources[r].FullPath(ver) for <<r, ver>> = call.arg, twice: the
\* function reads the graph and writes nothing.
FullPathCall ==
    /\ call.op \in {"none", "ResourceDefinition.FullPath"}
    /\ call.again = <<>>
    /\ LET fullPath == ResourceFullPath(Design, call.arg[1], call.arg[2])
       IN  call' = IF call.op = "none"
                   THEN [call EXCEPT !.op = "ResourceDefinition.FullPath",
                                     !.result = fullPath]
                   ELSE [call EXCEPT !.again = <<fullPath>>]
    /\ UNCHANGED <<Design, built, finalized, mergeCall, trace, mimeBareTypes, gen>>

\* FullPath of every resource of every graph under every scope.
InitFullPath ==
    /\ Design \in PathGraphs
    /\ built = Design
    /\ finalized = {}
    /\ mergeCall = NoMerge
    /\ trace = NoTrace
    /\ mimeBareTypes = FALSE
    /\ \E r \in DOMAIN Design.Resources :
       \E ver \in {DefaultScope} \cup {NamedScope(v) : v \in DOMAIN Design.APIVersions} :
          call = [NoCall EXCEPT !.arg = <<r, ver>>]
    /\ gen = NoGen

SpecFullPath == InitFullPath /\ [][FullPathCall]_vars

\* r.Finalize() for the resource r = call.arg, run once and then once more
\* on the graph the first run left; the graph after each run is recorded.
FinalizeCall ==
    /\ call.op \in {"none", "ResourceDefinition.Finalize"}
    /\ call.again = <<>>
    /\ Design' = Finalize(Design, call.arg)
    /\ finalized' = finalized \cup {call.arg}
    /\ call' = IF call.op = "none"
               THEN [call EXCEPT !.op = "ResourceDefinition.Finalize",
                                 !.result = <<Design'>>]
               ELSE [call EXCEPT !.again = <<Design'>>]
    /\ UNCHANGED <<built, mergeCall, trace, mimeBareTypes, gen>>

\* Finalize of either resource of the graphs of Spec and of SpecResponses.
InitFinalizeTwice ==
    /\ Design \in PathGraphs \cup ResponseGraphs
    /\ built = Design
    /\ finalized = {}
    /\ mergeCall = NoMerge
    /\ trace = NoTrace
    /\ mimeBareTypes = FALSE
    /\ \E r \in DOMAIN Design.Resources : call = [NoCall EXCEPT !.arg = r]
    /\ gen = NoGen

SpecFinalizeTwice == InitFinalizeTwice /\ [][FinalizeCall]_vars

\* ------------------------------------------------------------------------
\* Code generation
\* ------------------------------------------------------------------------

\* MergeResponses(l, r): the map returned and the map l after the call.  A
\* nil map is the empty one; the loop writes the entries of r into l.
MergeResponses(l, r) ==
    IF l = <<>> THEN [result |-> r, l |-> l]
    ELSE IF r = <<>> THEN [result |-> l, l |-> l]
    ELSE LET merged == [n \in DOMAIN l \cup DOMAIN r |->
                           IF n \in DOMAIN r THEN r[n] ELSE l[n]]
         IN  [result |-> merged, l |-> merged]

\* A step of Generate that may return an error: which step, in the visit of
\* which version scope, and for the writers run per element, at which one.
NoFailure == [step |-> "none", ver |-> DefaultScope, at |-> <<>>]

GenerateFailures(d) ==
    LET scopes == {DefaultScope} \cup {NamedScope(v) : v \in DOMAIN d.APIVersions}
    IN  {NoFailure}
        \cup { [step |-> s, ver |-> v, at |-> <<>>] :
                 s \in {"contexts.FormatCode", "controllers.Execute",
                        "controllers.FormatCode", "hrefs.FormatCode"},
                 v \in scopes }
        \cup UNION { { [step |-> "contexts.Execute", ver |-> v, at |-> <<r, a>>] :
                         a \in DOMAIN d.Resources[r].Actions, v \in scopes }
                     : r \in DOMAIN d.Resources }
        \cup { [step |-> "hrefs.Execute", ver |-> v, at |-> <<r>>] :
                 r \in DOMAIN d.Resources, v \in scopes }

\* The error a failed step returns.
StepError(step) == [nil |-> FALSE, at |-> <<step>>]

\* outdir and the files below it.
OutDir == [dir |-> <<>>, file |-> "app"]
VersionFile(ver, file) == [dir |-> ver.Version, file |-> file]

\* The visitor of r.IterateActions in the contexts step over the given
\* action names of resource r: the context data of each action is built,
\* MergeResponses(r.Responses, a.Responses) included, and ctxWr.Execute is
\* run, which fails at failAt.
RECURSIVE ContextsOfActions(_, _, _, _)
ContextsOfActions(d, r, actions, failAt) ==
    IF actions = <<>> THEN [d |-> d, err |-> NoError]
    ELSE LET a  == actions[1]
             m  == MergeResponses(d.Resources[r].Responses,
                                  d.Resources[r].Actions[a].Responses)
             d2 == [d EXCEPT !.Resources[r].Responses = m.l]
         IN  IF <<r, a>> = failAt
             THEN [d |-> d2, err |-> StepError("contexts.Execute")]
             ELSE ContextsOfActions(d2, r, Tail(actions), failAt)

\* api.IterateResources of the contexts step over the given resource names.
RECURSIVE ContextsOfResources(_, _, _)
ContextsOfResources(d, resources, failAt) ==
    IF resources = <<>> THEN [d |-> d, err |-> NoError]
    ELSE LET run == ContextsOfActions(d, resources[1],
                        SortedKeys(d.Resources[resources[1]].Actions), failAt)
         IN  IF ~run.err.nil THEN run
             ELSE ContextsOfResources(run.d, Tail(resources), failAt)

\* The visitor Generate gives to api.IterateVersions, for the scope ver:
\* contexts, controllers and hrefs, each file appended to g.genfiles before
\* the error of its step is looked at.
GenerateVersion(d, genfiles, ver, fail) ==
    LET failed(step) == fail.ver = ver /\ fail.step = step
        ctx == ContextsOfResources(d, SortedKeys(d.Resources),
                   IF failed("contexts.Execute") THEN fail.at ELSE <<>>)
        f1  == Append(genfiles, VersionFile(ver, "contexts.go"))
        f2  == Append(f1, VersionFile(ver, "controllers.go"))
        f3  == Append(f2, VersionFile(ver, "hrefs.go"))
    IN  IF ~ctx.err.nil
        THEN [d |-> ctx.d, genfiles |-> f1, err |-> ctx.err]
        ELSE IF failed("contexts.FormatCode")
        THEN [d |-> ctx.d, genfiles |-> f1, err |-> StepError(fail.step)]
        ELSE IF failed("controllers.Execute") \/ failed("controllers.FormatCode")
        THEN [d |-> ctx.d, genfiles |-> f2, err |-> StepError(fail.step)]
        ELSE IF failed("hrefs.Execute") \/ failed("hrefs.FormatCode")
        THEN [d |-> ctx.d, genfiles |-> f3, err |-> StepError(fail.step)]
        ELSE [d |-> ctx.d, genfiles |-> f3, err |-> NoError]

\* api.IterateVersions with that visitor over the given scopes: it stops at
\* the first error and returns it.
RECURSIVE GenerateVersions(_, _, _, _)
GenerateVersions(d, genfiles, vers, fail) ==
    IF vers = <<>> THEN [d |-> d, genfiles |-> genfiles, err |-> NoError]
    ELSE LET run == GenerateVersion(d, genfiles, vers[1], fail)
         IN  IF ~run.err.nil THEN run
             ELSE GenerateVersions(run.d, run.genfiles, Tail(vers), fail)

\* What the deferred function leaves of g.genfiles: Cleanup when err is
\* not nil.
AfterDefer(genfiles, err) == IF err.nil THEN genfiles ELSE <<>>

\* The body of Generate after api.IterateVersions has returned versions:
\* "mtWr, err := NewMediaTypesWriter(mtFile)" assigns the result err, the
\* writers being created without error; a naked return gives no file list.
GenerateTail(d, versions, mtFailing, mtFormatFails, utFailing, utFormatFails) ==
    LET mtWriterErr == NoError
        mt   == VisitLoop(SortedKeys(d.MediaTypes), mtFailing, <<>>)
        f4   == Append(versions.genfiles, [dir |-> <<>>, file |-> "media_types.go"])
        ut   == VisitLoop(SortedKeys(d.Types), utFailing, <<>>)
        f5   == Append(f4, [dir |-> <<>>, file |-> "user_types.go"])
        Return(files, genfiles, err) ==
            [pc |-> "returned", files |-> files, err |-> err,
             versionsErr |-> versions.err, genfiles |-> AfterDefer(genfiles, err)]
    IN  IF ~mtWriterErr.nil THEN Return(<<>>, versions.genfiles, mtWriterErr)
        ELSE IF ~mt.err.nil THEN Return(<<>>, f4, StepError("mediatypes.Execute"))
        ELSE IF mtFormatFails THEN Return(<<>>, f4, StepError("mediatypes.FormatCode"))
        ELSE IF ~ut.err.nil THEN Return(<<>>, f5, StepError("usertypes.Execute"))
        ELSE IF utFormatFails THEN Return(<<>>, f5, StepError("usertypes.FormatCode"))
        ELSE Return(f5, f5, NoError)

\* g.Generate(design.Design) of a fresh generator, whose genfiles hold
\* outdir, with the steps that fail given.
Generate(fail, mtFailing, mtFormatFails, utFailing, utFormatFails) ==
    /\ gen.pc = "none"
    /\ LET versions == GenerateVersions(Design, <<OutDir>>, VersionOrder(Design), fail)
       IN  /\ Design' = versions.d
           /\ gen' = GenerateTail(Design', versions, mtFailing, mtFormatFails,
                                   utFailing, utFormatFails)
    /\ UNCHANGED <<built, finalized, mergeCall, trace, call, mimeBareTypes>>

\* The responses of the child resource and of its action in SpecGenerate.
GenerateResourceResponses == { <<>>, [n \in { <<"O", "K">> } |-> OKResponse(200)] }

GenerateActionResponses ==
    { <<>>,
      [n \in { <<"O", "K">> } |-> Response(<<"O", "K">>, 201, <<>>, <<>>, NilAtt)],
      [n \in { <<"O", "K">>, <<"N", "o", "t", "F", "o", "u", "n", "d">> } |->
          IF n = <<"O", "K">> THEN OKResponse(0)
          ELSE Response(<<"N", "o", "t", "F", "o", "u", "n", "d">>, 404, <<>>, <<>>, NilAtt)] }

\* The graphs handed to Generate, before their finalization.
GenerateGraphs ==
    { [Graph(versions,
             [parentName |-> <<"p", "a", "r", "e", "n", "t", "s">>,
              parentAction |-> [name |-> <<"s", "h", "o", "w">>, routes |-> << <<"/", ":", "p", "a", "r", "e", "n", "t", "I", "D">> >>]],
             [api |-> <<>>, BasePath |-> <<"/", "c", "h", "i", "l", "d", "r", "e", "n">>, BaseParams |-> NilAtt],
             << <<"/", ":", "i", "d">> >>, NilAtt, actionResponses, resourceResponses, <<>>, <<>>)
         EXCEPT !.MediaTypes = [m \in M |-> [Identifier |-> m]],
                !.Types      = [t \in T |-> [TypeName |-> t]]] :
        versions \in VersionMaps,
        actionResponses \in GenerateActionResponses,
        resourceResponses \in GenerateResourceResponses,
        M \in { {}, { <<"a", "/", "b">> } }, T \in { {}, { <<"P", "a", "y", "l", "o", "a", "d">> } } }

\* Every resource finalized, in the order of IterateResources.
RECURSIVE FinalizeAll(_, _)
FinalizeAll(d, resources) ==
    IF resources = <<>> THEN d
    ELSE FinalizeAll(Finalize(d, resources[1]), Tail(resources))

\* Generation runs on a finalized graph.
InitGenerate ==
    /\ \E g \in GenerateGraphs : Design = FinalizeAll(g, SortedKeys(g.Resources))
    /\ built = Design
    /\ finalized = DOMAIN Design.Resources
    /\ mergeCall = NoMerge
    /\ trace = NoTrace
    /\ call = NoCall
    /\ mimeBareTypes = FALSE
    /\ gen = NoGen

NextGenerate ==
    \E fail \in GenerateFailures(Design) :
    \E mtFailing \in SUBSET DOMAIN Design.MediaTypes, mtFormatFails \in BOOLEAN :
    \E utFailing \in SUBSET DOMAIN Design.Types, utFormatFails \in BOOLEAN :
        Generate(fail, mtFailing, mtFormatFails, utFailing, utFormatFails)

SpecGenerate == InitGenerate /\ [][NextGenerate]_vars

\* ------------------------------------------------------------------------
\* Parent chains
\* ------------------------------------------------------------------------

\* The largest number of resources of a graph of SpecChain.
MaxChain == 3

ChainNameList == << <<"a">>, <<"b">>, <<"c">>, <<"d">>, <<"e">> >>

ChainNames == {ChainNameList[i] : i \in 1..MaxChain}

\* The ParentName of the i-th resource: none, itself, or the resource
\* before or after it in the list, which is taken as a ring.
ParentNames(i) ==
    { <<>>, ChainNameList[i],
      ChainNameList[IF i = 1 THEN MaxChain ELSE i - 1],
      ChainNameList[IF i = MaxChain THEN 1 ELSE i + 1] }

\* The routes of the canonical action of the first resource; every other
\* resource has the one route /:id.
FirstRoutes == { << <<"/", ":", "i", "d">> >>, << <<"/", "/", "r", "o", "o", "t">>, <<"/", ":", "i", "d">> >>, <<>> }

\* The graph the definitions declare: resource x has base path /x and the
\* action show.
ChainGraph(parents, firstRoutes) ==
    [BasePath         |-> <<"/", "a", "p", "i">>,
     BaseParams       |-> NilAtt,
     APIVersions      |-> <<>>,
     Responses        |-> <<>>,
     DefaultResponses |-> <<>>,
     MediaTypes       |-> <<>>,
     Types            |-> <<>>,
     Resources        |->
        [r \in ChainNames |->
            Resource(<<"/">> \o r, NilAtt, parents[r], <<>>, <<>>,
                     [a \in { <<"s", "h", "o", "w">> } |->
                         Action(IF r = ChainNameList[1] THEN firstRoutes
                                ELSE << <<"/", ":", "i", "d">> >>, <<>>, NilAtt)],
                     <<>>)]]

ChainGraphs ==
    { ChainGraph([r \in ChainNames |->
                     parents[CHOOSE i \in 1..MaxChain : ChainNameList[i] = r]],
                 firstRoutes) :
        parents \in {f \in [1..MaxChain -> ChainNames \cup {<<>>}] :
                        \A i \in 1..MaxChain : f[i] \in ParentNames(i)},
        firstRoutes \in FirstRoutes }

\* Faulty variant: the route's FullPath asks the resource itself, not the
\* parent, for its path.
RECURSIVE FullPathRunAsksItself(_, _, _, _)
FullPathRunAsksItself(d, r, ver, fuel) ==
    IF fuel = 0 THEN [overflow |-> TRUE, depth |-> 0, path |-> <<>>]
    ELSE IF ~HasParent(d, r)
         THEN [overflow |-> FALSE, depth |-> 1,
               path |-> CleanPath(Join(ScopeBasePath(d, ver), d.Resources[r].BasePath))]
         ELSE FullPathRunAsksItself(d, r, ver, fuel - 1)

\* r.FullPath(ver) for the resource named r as the calls nest: each call of
\* ResourceDefinition.FullPath takes a frame, and the call made through the
\* first route of the parent's canonical action runs before this one
\* returns.  fuel is the number of frames left; with none left the stack is
\* exhausted.
RECURSIVE FullPathRun(_, _, _, _)
FullPathRun(d, r, ver, fuel) ==
    IF fuel = 0 THEN [overflow |-> TRUE, depth |-> 0, path |-> <<>>]
    ELSE LET res == d.Resources[r]
             p   == res.ParentName
             Done(basePath) ==
                 [overflow |-> FALSE, depth |-> 1,
                  path |-> CleanPath(Join(basePath, res.BasePath))]
         IN  IF ~HasParent(d, r) THEN Done(ScopeBasePath(d, ver))
             ELSE IF ~HasCanonicalAction(d, p) THEN Done(<<>>)
             ELSE LET routes == d.Resources[p].Actions[CanonicalName(d, p)].Routes
                  IN  IF Len(routes) = 0 THEN Done(<<>>)
                      ELSE IF IsAbsolute(routes[1])
                      THEN Done(JoinOne(CleanPath(Tail(routes[1]))))
                      ELSE LET sub == FullPathRun(d, p, ver, fuel - 1)
                           IN  IF sub.overflow THEN sub
                               ELSE [overflow |-> FALSE,
                                     depth |-> sub.depth + 1,
                                     path |-> CleanPath(Join(
                                         JoinOne(CleanPath(Join(sub.path, routes[1]))),
                                         res.BasePath))]

\* Design.Resources[r] = the declared resource: the definitions register
\* their resources in any order, and a computed path is not kept.
RegisterResource(r) ==
    /\ r \in DOMAIN built.Resources \ DOMAIN Design.Resources
    /\ Design' = [Design EXCEPT !.Resources = Put(@, r, built.Resources[r])]
    /\ trace' = [trace EXCEPT !.names = Append(@, r)]
    /\ call' = NoCall
    /\ UNCHANGED <<built, finalized, mergeCall, mimeBareTypes, gen>>

\* Design.Resources[r].FullPath(ver) on the resources registered so far.  A
\* chain of nested calls longer than the number of resources passes through
\* one resource twice and so never ends.
NestedFullPathCall(r, ver) ==
    /\ r \in DOMAIN Design.Resources
    /\ call' = [NoCall EXCEPT
                  !.op = "ResourceDefinition.FullPath nested",
                  !.arg = <<r, ver>>,
                  !.result = FullPathRun(Design, r, ver,
                                 Cardinality(DOMAIN Design.Resources) + 1)]
    /\ UNCHANGED <<Design, built, finalized, mergeCall, trace, mimeBareTypes, gen>>

\* No resource is registered yet; built is the graph the definitions
\* declare.
InitChain ==
    /\ built \in ChainGraphs
    /\ Design = [built EXCEPT !.Resources = <<>>]
    /\ finalized = {}
    /\ mergeCall = NoMerge
    /\ trace = NoTrace
    /\ call = NoCall
    /\ mimeBareTypes = FALSE
    /\ gen = NoGen

NextChain ==
    \/ \E r \in DOMAIN built.Resources : RegisterResource(r)
    \/ \E r \in DOMAIN Design.Resources : NestedFullPathCall(r, DefaultScope)

SpecChain == InitChain /\ [][NextChain]_vars

\* ------------------------------------------------------------------------
\* Vocabulary of the properties
\* ------------------------------------------------------------------------

\* The version scopes of a graph: the default scope and every named version.
Scopes(d) == {DefaultScope} \cup {NamedScope(v) : v \in DOMAIN d.APIVersions}

\* The names of a parameter set; a nil set has none.
Names(att) == IF att.nil THEN {} ELSE DOMAIN att.obj

\* The wildcard names of all the routes of action a of resource r under ver.
WildcardsUnder(d, r, a, ver) ==
    LET routes == d.Resources[r].Actions[a].Routes
    IN  {wc \in UNION {Range(RouteParams(d, r, routes[i], ver)) : i \in DOMAIN routes} : TRUE}

\* The wildcard names of all the routes of the action over all scopes.
WildcardsOverall(d, r, a) == UNION {WildcardsUnder(d, r, a, ver) : ver \in Scopes(d)}

\* The finalized actions, as <<resource, action>> pairs.
FinalizedActions ==
    {ra \in finalized \X UNION {DOMAIN Design.Resources[r].Actions : r \in finalized} :
        ra[2] \in DOMAIN Design.Resources[ra[1]].Actions}

\* The elements of a path: the non-empty pieces between slashes.
RECURSIVE Segments(_)
Segments(p) ==
    IF p = <<>> THEN <<>>
    ELSE IF p[1] = "/" THEN Segments(Tail(p))
    ELSE LET k == CHOOSE k \in 1..(Len(p) + 1) :
                      /\ k = Len(p) + 1 \/ p[k] = "/"
                      /\ \A j \in 1..(k - 1) : p[j] # "/"
         IN  <<SubSeq(p, 1, k - 1)>> \o Segments(SubSeq(p, k, Len(p)))

\* The elements left when "." is dropped and ".." removes the element before
\* it (and is dropped at the root).
RECURSIVE Resolve(_, _)
Resolve(stack, segs) ==
    IF segs = <<>> THEN stack
    ELSE IF segs[1] = <<".">> THEN Resolve(stack, Tail(segs))
    ELSE IF segs[1] = <<".", ".">>
         THEN Resolve(IF stack = <<>> THEN stack
                      ELSE SubSeq(stack, 1, Len(stack) - 1), Tail(segs))
    ELSE Resolve(Append(stack, segs[1]), Tail(segs))

\* The rooted path made of the given elements.
RECURSIVE Slashed(_)
Slashed(segs) ==
    IF segs = <<>> THEN <<>> ELSE <<"/">> \o segs[1] \o Slashed(Tail(segs))

RootedPath(segs) == IF segs = <<>> THEN <<"/">> ELSE Slashed(segs)

\* The cleaned join of two paths, stated on path elements.
CleanJoin(a, b) == RootedPath(Resolve(<<>>, Segments(a) \o Segments(b)))

\* The cleaned form of one rooted path, its trailing slash kept.
CleanKeepingSlash(p) ==
    LET segs == Resolve(<<>>, Segments(p))
    IN  IF segs # <<>> /\ p # <<>> /\ p[Len(p)] = "/"
        THEN Slashed(segs) \o <<"/">>
        ELSE RootedPath(segs)

\* ------------------------------------------------------------------------
\* Properties
\* ------------------------------------------------------------------------

\* C1: after Finalize of a resource, for every action, route and version
\* scope (the default one and every named one), each wildcard of the route's
\* full path is a key of the action's Params, and a wildcard that was not
\* declared before finalization has type String.
C1_WildcardsAreParams ==
    \A ra \in FinalizedActions :
        LET act  == Design.Resources[ra[1]].Actions[ra[2]]
            decl == built.Resources[ra[1]].Actions[ra[2]].Params
        IN  \A wc \in WildcardsOverall(Design, ra[1], ra[2]) :
                /\ ~act.Params.nil
                /\ wc \in DOMAIN act.Params.obj
                /\ wc \notin Names(decl) => act.Params.obj[wc] = "String"

\* A finalized action with an undeclared wildcard that is a wildcard under a
\* named version only, and a declared wildcard that kept its type.
C1_Witness ==
    \E ra \in FinalizedActions :
        LET act  == Design.Resources[ra[1]].Actions[ra[2]]
            decl == built.Resources[ra[1]].Actions[ra[2]].Params
        IN  /\ \E wc \in WildcardsOverall(Design, ra[1], ra[2]) :
                  /\ wc \notin Names(decl)
                  /\ wc \notin WildcardsUnder(Design, ra[1], ra[2], DefaultScope)
                  /\ act.Params.obj[wc] = "String"
            /\ \E wc \in WildcardsOverall(Design, ra[1], ra[2]) :
                  /\ wc \in Names(decl)
                  /\ act.Params.obj[wc] = "Integer"

\* C3: after Finalize of an action whose Params are not nil, QueryParams
\* holds exactly the names of Params that are a wildcard under no version
\* scope, and NonZeroAttributes marks exactly the wildcard names of all scopes.
C3_QueryParamsAreTheRest ==
    \A ra \in FinalizedActions :
        LET act == Design.Resources[ra[1]].Actions[ra[2]]
            W   == WildcardsOverall(Design, ra[1], ra[2])
        IN  ~act.Params.nil =>
                /\ ~act.QueryParams.nil
                /\ DOMAIN act.QueryParams.obj = DOMAIN act.Params.obj \ W
                /\ \A n \in DOMAIN act.QueryParams.obj :
                       act.QueryParams.obj[n] = act.Params.obj[n]
                /\ act.Params.NonZeroAttributes = W

\* A finalized action with a query parameter left, and a name that is a
\* wildcard under one named version only: it is no query parameter and is
\* marked non-zero.
C3_Witness ==
    \E ra \in FinalizedActions :
        LET act == Design.Resources[ra[1]].Actions[ra[2]]
        IN  /\ ~act.Params.nil
            /\ DOMAIN act.QueryParams.obj # {}
            /\ \E v \in DOMAIN Design.APIVersions :
                 \E wc \in WildcardsUnder(Design, ra[1], ra[2], NamedScope(v)) :
                    /\ \A s \in Scopes(Design) \ {NamedScope(v)} :
                           wc \notin WildcardsUnder(Design, ra[1], ra[2], s)
                    /\ wc \notin DOMAIN act.QueryParams.obj
                    /\ wc \in act.Params.NonZeroAttributes

\* C2 as stated: after finalization, for every version scope, the names of
\* PathParams(scope) and of QueryParams are disjoint and their union is the
\* set of names of Params.
C2_PartitionPerScope ==
    \A ra \in FinalizedActions :
        LET act == Design.Resources[ra[1]].Actions[ra[2]]
        IN  \A ver \in Scopes(Design) :
                ~PathParamsPanics(Design, ra[1], ra[2], ver) =>
                    LET pp == PathParams(Design, ra[1], ra[2], ver)
                    IN  /\ pp \cap Names(act.QueryParams) = {}
                        /\ pp \cup Names(act.QueryParams) = Names(act.Params)

\* C2 amended: for every version scope the names PathParams takes from the
\* routes are disjoint from the names of QueryParams and both are names of
\* Params; QueryParams and the route names of all scopes together are the
\* names of Params; the union for one scope misses exactly the names that
\* are wildcards under other scopes only.
C2_PartitionOverScopes ==
    \A ra \in FinalizedActions :
        LET act == Design.Resources[ra[1]].Actions[ra[2]]
            qp  == Names(act.QueryParams)
            all == UNION {PathParamsOfRoutes(Design, ra[1], ra[2], ver) :
                            ver \in Scopes(Design)}
        IN  /\ all \cup qp = Names(act.Params)
            /\ \A ver \in Scopes(Design) :
                  LET pp == PathParamsOfRoutes(Design, ra[1], ra[2], ver)
                  IN  /\ pp \cap qp = {}
                      /\ Names(act.Params) \ (pp \cup qp) = all \ pp

\* A finalized action with a query parameter and a scope whose path
\* parameters and QueryParams do not make up Params.
C2_Witness ==
    \E ra \in FinalizedActions :
        LET act == Design.Resources[ra[1]].Actions[ra[2]]
            qp  == Names(act.QueryParams)
        IN  /\ qp # {}
            /\ \E ver \in Scopes(Design) :
                  LET pp == PathParamsOfRoutes(Design, ra[1], ra[2], ver)
                  IN  pp # {} /\ pp \cup qp # Names(act.Params)

\* C6: the full path of a resource whose parent has a canonical action with
\* a route is the cleaned join of that action's first route's full path and
\* the resource's base path; without parent it is the cleaned join of the
\* scope's base path and the resource's base path; a relative route's full
\* path is the cleaned join of the resource's full path and the route path.
C6_FullPathComposition ==
    \A r \in DOMAIN Design.Resources : \A ver \in Scopes(Design) :
        LET res == Design.Resources[r]
            p   == res.ParentName
            fp  == ResourceFullPath(Design, r, ver)
        IN  /\ (/\ HasParent(Design, r)
                /\ HasCanonicalAction(Design, p)
                /\ Design.Resources[p].Actions[CanonicalName(Design, p)].Routes # <<>>)
               => fp = CleanJoin(
                          RouteFullPath(Design, p,
                              Design.Resources[p].Actions[CanonicalName(Design, p)].Routes[1],
                              ver),
                          res.BasePath)
            /\ ~HasParent(Design, r)
               => fp = CleanJoin(ScopeBasePath(Design, ver), res.BasePath)
            /\ \A a \in DOMAIN res.Actions : \A i \in DOMAIN res.Actions[a].Routes :
                  ~IsAbsolute(res.Actions[a].Routes[i])
                  => RouteFullPath(Design, r, res.Actions[a].Routes[i], ver)
                         = CleanJoin(fp, res.Actions[a].Routes[i])

\* The scenario: parent base path /parents, canonical route resolving to
\* /parents/:parentID, child base path /children; Finalize has walked the
\* child's full paths and made parentID a parameter of its action.
C6_Witness ==
    /\ <<"c", "h", "i", "l", "d", "r", "e", "n">> \in finalized
    /\ <<"p", "a", "r", "e", "n", "t", "I", "D">> \notin Names(built.Resources[<<"c", "h", "i", "l", "d", "r", "e", "n">>].Actions[<<"s", "h", "o", "w">>].Params)
    /\ <<"p", "a", "r", "e", "n", "t", "I", "D">> \in Names(Design.Resources[<<"c", "h", "i", "l", "d", "r", "e", "n">>].Actions[<<"s", "h", "o", "w">>].Params)
    /\ Design.Resources[<<"c", "h", "i", "l", "d", "r", "e", "n">>].ParentName = <<"p", "a", "r", "e", "n", "t", "s">>
    /\ Design.Resources[<<"p", "a", "r", "e", "n", "t", "s">>].BasePath = <<"/", "p", "a", "r", "e", "n", "t", "s">>
    /\ Design.Resources[<<"c", "h", "i", "l", "d", "r", "e", "n">>].BasePath = <<"/", "c", "h", "i", "l", "d", "r", "e", "n">>
    /\ HasCanonicalAction(Design, <<"p", "a", "r", "e", "n", "t", "s">>)
    /\ Design.Resources[<<"p", "a", "r", "e", "n", "t", "s">>].Actions[<<"s", "h", "o", "w">>].Routes # <<>>
    /\ RouteFullPath(Design, <<"p", "a", "r", "e", "n", "t", "s">>,
                     Design.Resources[<<"p", "a", "r", "e", "n", "t", "s">>].Actions[<<"s", "h", "o", "w">>].Routes[1],
                     DefaultScope) = <<"/", "p", "a", "r", "e", "n", "t", "s", "/", ":", "p", "a", "r", "e", "n", "t", "I", "D">>
    /\ ResourceFullPath(Design, <<"c", "h", "i", "l", "d", "r", "e", "n">>, DefaultScope)
           = <<"/", "p", "a", "r", "e", "n", "t", "s", "/", ":", "p", "a", "r", "e", "n", "t", "I", "D", "/", "c", "h", "i", "l", "d", "r", "e", "n">>
    /\ \E i \in DOMAIN Design.Resources[<<"c", "h", "i", "l", "d", "r", "e", "n">>].Actions[<<"s", "h", "o", "w">>].Routes :
           RouteFullPath(Design, <<"c", "h", "i", "l", "d", "r", "e", "n">>,
                         Design.Resources[<<"c", "h", "i", "l", "d", "r", "e", "n">>].Actions[<<"s", "h", "o", "w">>].Routes[i],
                         DefaultScope) = <<"/", "p", "a", "r", "e", "n", "t", "s", "/", ":", "p", "a", "r", "e", "n", "t", "I", "D", "/", "c", "h", "i", "l", "d", "r", "e", "n", "/", ":", "i", "d">>

\* C7: the full path of a route whose path begins with // is the cleaned
\* path without its first slash, whatever the version scope, the API and
\* resource base paths and the parent resource.
C7_AbsoluteRoutes ==
    \A r \in DOMAIN Design.Resources : \A a \in DOMAIN Design.Resources[r].Actions :
        LET routes == Design.Resources[r].Actions[a].Routes
        IN  \A i \in DOMAIN routes :
                HasPrefix(routes[i], <<"/", "/">>) =>
                    \A ver \in Scopes(Design) :
                        RouteFullPath(Design, r, routes[i], ver)
                            = CleanKeepingSlash(Tail(routes[i]))

\* An absolute route of a resource with a parent, under an API with a base
\* path and a named version with another one; Finalize has walked its full
\* paths and found the wildcard z and none of the ancestors' wildcards.
C7_Witness ==
    /\ <<"c", "h", "i", "l", "d", "r", "e", "n">> \in finalized
    /\ Len(Design.Resources[<<"c", "h", "i", "l", "d", "r", "e", "n">>].Actions[<<"s", "h", "o", "w">>].Routes) = 1
    /\ Design.BasePath = <<"/", "a", "p", "i", "/", ":", "o", "r", "g">>
    /\ Design.Resources[<<"c", "h", "i", "l", "d", "r", "e", "n">>].Actions[<<"s", "h", "o", "w">>].Params.NonZeroAttributes = { <<"z">> }
    /\ HasParent(Design, <<"c", "h", "i", "l", "d", "r", "e", "n">>)
    /\ HasCanonicalAction(Design, <<"p", "a", "r", "e", "n", "t", "s">>)
    /\ DOMAIN Design.APIVersions # {}
    /\ \E i \in DOMAIN Design.Resources[<<"c", "h", "i", "l", "d", "r", "e", "n">>].Actions[<<"s", "h", "o", "w">>].Routes :
        /\ IsAbsolute(Design.Resources[<<"c", "h", "i", "l", "d", "r", "e", "n">>].Actions[<<"s", "h", "o", "w">>].Routes[i])
        /\ \A ver \in Scopes(Design) :
              /\ RouteFullPath(Design, <<"c", "h", "i", "l", "d", "r", "e", "n">>,
                     Design.Resources[<<"c", "h", "i", "l", "d", "r", "e", "n">>].Actions[<<"s", "h", "o", "w">>].Routes[i], ver)
                     = <<"/", "a", "b", "s", "/", "*", "z", "/">>
              /\ ResourceFullPath(Design, <<"c", "h", "i", "l", "d", "r", "e", "n">>, ver) # <<"/">>

\* The responses named n that Finalize consults for action a of resource r,
\* most specific first: the action's own (as built), then the resource's,
\* the API's and the built-in one, where they exist.
ResponseChain(r, a, n) ==
    <<built.Resources[r].Actions[a].Responses[n]>>
    \o (IF n \in DOMAIN built.Resources[r].Responses
        THEN <<built.Resources[r].Responses[n]>> ELSE <<>>)
    \o (IF n \in DOMAIN built.Responses THEN <<built.Responses[n]>> ELSE <<>>)
    \o (IF n \in DOMAIN built.DefaultResponses
        THEN <<built.DefaultResponses[n]>> ELSE <<>>)

\* The first value of field f in the chain that differs from unset, or unset.
FirstSet(chain, f, unset) ==
    IF \E i \in DOMAIN chain : chain[i][f] # unset
    THEN chain[CHOOSE i \in DOMAIN chain :
                   /\ chain[i][f] # unset
                   /\ \A j \in 1..(i - 1) : chain[j][f] = unset][f]
    ELSE unset

\* C4: after Finalize, each of Name, Status, Description and MediaType of
\* every response of every action is the first non-empty value among the
\* action's own response, the resource's, the API's and the built-in one of
\* that name; a field the action set is kept.
C4_ResponseInheritance ==
    \A ra \in FinalizedActions :
        LET act == Design.Resources[ra[1]].Actions[ra[2]]
            own == built.Resources[ra[1]].Actions[ra[2]].Responses
        IN  /\ DOMAIN act.Responses = DOMAIN own
            /\ \A n \in DOMAIN own :
                  LET chain == ResponseChain(ra[1], ra[2], n)
                      resp  == act.Responses[n]
                  IN  /\ resp.Name = FirstSet(chain, "Name", <<>>)
                      /\ resp.Status = FirstSet(chain, "Status", 0)
                      /\ resp.Description = FirstSet(chain, "Description", <<>>)
                      /\ resp.MediaType = FirstSet(chain, "MediaType", <<>>)
                      /\ own[n].Name # <<>> => resp.Name = own[n].Name
                      /\ own[n].Status # 0 => resp.Status = own[n].Status
                      /\ own[n].Description # <<>> => resp.Description = own[n].Description
                      /\ own[n].MediaType # <<>> => resp.MediaType = own[n].MediaType

\* A finalized action whose response OK kept its own name, took its
\* description from the resource, skipping the resource's unset status, its
\* status from the API, and whose response NotFound was filled from the
\* built-in one.
C4_Witness ==
    /\ <<"c", "h", "i", "l", "d", "r", "e", "n">> \in finalized
    /\ LET own  == built.Resources[<<"c", "h", "i", "l", "d", "r", "e", "n">>].Actions[<<"s", "h", "o", "w">>].Responses
           resp == Design.Resources[<<"c", "h", "i", "l", "d", "r", "e", "n">>].Actions[<<"s", "h", "o", "w">>].Responses
       IN  /\ own[<<"O", "K">>].Name = <<"O", "K">> /\ own[<<"O", "K">>].Status = 0
           /\ own[<<"O", "K">>].Description = <<>>
           /\ <<"O", "K">> \in DOMAIN built.Resources[<<"c", "h", "i", "l", "d", "r", "e", "n">>].Responses
           /\ built.Resources[<<"c", "h", "i", "l", "d", "r", "e", "n">>].Responses[<<"O", "K">>].Status = 0
           /\ resp[<<"O", "K">>].Name = <<"O", "K">>
           /\ resp[<<"O", "K">>].Description = <<"r">>
           /\ resp[<<"O", "K">>].Status = 203
           /\ resp[<<"N", "o", "t", "F", "o", "u", "n", "d">>].Status = 404

\* C5: Merge changes no field of the receiver among Name, Status,
\* Description and MediaType that was set; with a nil other, or an other with
\* no field set and no header, the receiver is unchanged, headers included.
C5_MergeKeepsSetFields ==
    mergeCall.called =>
        LET r == mergeCall.receiver
            o == mergeCall.other
            x == mergeCall.result
        IN  /\ r.Name # <<>> => x.Name = r.Name
            /\ r.Status # 0 => x.Status = r.Status
            /\ r.Description # <<>> => x.Description = r.Description
            /\ r.MediaType # <<>> => x.MediaType = r.MediaType
            /\ (\/ o.nil
                \/ /\ o.Name = <<>> /\ o.Status = 0
                   /\ o.Description = <<>> /\ o.MediaType = <<>>
                   /\ Names(o.Headers) = {})
               => x = r

\* A call whose receiver has a status and no name, and whose argument has
\* another status and a name: the status is kept and the name filled in.
C5_Witness ==
    /\ mergeCall.called
    /\ ~mergeCall.other.nil
    /\ mergeCall.receiver.Status = 200 /\ mergeCall.other.Status = 500
    /\ mergeCall.receiver.Name = <<>> /\ mergeCall.other.Name = <<"E", "r", "r", "o", "r">>
    /\ mergeCall.result.Status = 200
    /\ mergeCall.result.Name = <<"E", "r", "r", "o", "r">>

\* The enumerations of one map.
MapEnumerations ==
    {"IterateResources", "IterateMediaTypes", "IterateUserTypes",
     "IterateActions", "IterateResponses"}

\* The keys of the map the recorded enumeration ran over.
EnumeratedKeys ==
    CASE trace.op = "IterateResources"  -> DOMAIN Design.Resources
      [] trace.op = "IterateMediaTypes" -> DOMAIN Design.MediaTypes
      [] trace.op = "IterateUserTypes"  -> DOMAIN Design.Types
      [] trace.op = "IterateActions"    -> DOMAIN Design.Resources[trace.arg].Actions
      [] trace.op = "IterateResponses"  -> DOMAIN ScopeResponses(Design, trace.arg)
      [] trace.op = "APIVersionDefinition.IterateResources"
            -> {n \in DOMAIN Design.Resources :
                   IF trace.arg.default
                   THEN Design.Resources[n].APIVersions = <<>>
                   ELSE trace.arg.Version \in Range(Design.Resources[n].APIVersions)}
      [] OTHER -> {}

\* C8: an enumeration whose visitor never errs calls it exactly once per key
\* of the map, in ascending order of the keys, whatever the order in which
\* the keys came out of the map.
C8_SortedEnumeration ==
    (trace.op \in MapEnumerations /\ trace.failing = {}) =>
        /\ Len(trace.visited) = Cardinality(EnumeratedKeys)
        /\ Range(trace.visited) = EnumeratedKeys
        /\ \A i, j \in DOMAIN trace.visited :
              i < j => StrLess(trace.visited[i], trace.visited[j])

\* Resources met as zebra, apple, mango are visited as apple, mango, zebra.
C8_Witness ==
    /\ trace.op = "IterateResources"
    /\ trace.names = << <<"z", "e", "b", "r", "a">>, <<"a", "p", "p", "l", "e">>, <<"m", "a", "n", "g", "o">> >>
    /\ trace.visited = << <<"a", "p", "p", "l", "e">>, <<"m", "a", "n", "g", "o">>, <<"z", "e", "b", "r", "a">> >>

\* x comes before y in the order of the recorded enumeration: the order of
\* the keys, and for IterateVersions the default scope before the rest.
VisitedBefore(x, y) ==
    IF trace.op = "IterateVersions"
    THEN IF x.default THEN ~y.default
         ELSE ~y.default /\ StrLess(x.Version, y.Version)
    ELSE StrLess(x, y)

\* The elements the recorded enumeration ranges over.
EnumeratedItems ==
    IF trace.op = "IterateVersions" THEN Scopes(Design) ELSE EnumeratedKeys

\* C9: when the visitor errs on an element the enumeration returns that
\* error and visits no later element; when it errs on none the enumeration
\* returns nil after visiting every element; the graph is unchanged.
C9_FirstErrorStops ==
    trace.op # "none" =>
        LET v == trace.visited
            n == Len(trace.visited)
        IN  /\ Design = built
            /\ \A i \in 1..(n - 1) : v[i] \notin trace.failing
            /\ trace.err.nil <=> (trace.failing \cap EnumeratedItems = {})
            /\ trace.err.nil => Range(v) = EnumeratedItems
            /\ ~trace.err.nil =>
                  /\ n > 0
                  /\ v[n] \in trace.failing
                  /\ trace.err = Err(v[n])
                  /\ \A x \in EnumeratedItems :
                        IF VisitedBefore(x, v[n]) \/ x = v[n]
                        THEN x \in Range(v)
                        ELSE x \notin Range(v)

\* Three media types, a visitor that errs on the second and the third: the
\* first two are visited and the error of the second is returned.
C9_Witness ==
    /\ trace.op = "IterateMediaTypes"
    /\ DOMAIN Design.MediaTypes = { <<"u", "p", "d", "a", "t", "e">>, <<"s", "h", "o", "w">>, <<"S", "h", "o", "w">> }
    /\ trace.failing = { <<"s", "h", "o", "w">>, <<"u", "p", "d", "a", "t", "e">> }
    /\ trace.visited = << <<"S", "h", "o", "w">>, <<"s", "h", "o", "w">> >>
    /\ trace.err = Err(<<"s", "h", "o", "w">>)

\* C10: IterateVersions calls the visitor on the default scope first, then on
\* the named versions in ascending order of version string, each once; if
\* the visitor errs on the default scope no named version is visited.
C10_DefaultScopeFirst ==
    trace.op = "IterateVersions" =>
        LET v == trace.visited
        IN  /\ Len(v) >= 1
            /\ v[1] = DefaultScope
            /\ DefaultScope \in trace.failing =>
                  v = <<DefaultScope>> /\ trace.err = Err(DefaultScope)
            /\ \A i \in 2..Len(v) :
                  /\ ~v[i].default
                  /\ v[i].Version \in DOMAIN Design.APIVersions
            /\ \A i, j \in 2..Len(v) :
                  i < j => StrLess(v[i].Version, v[j].Version)
            /\ trace.failing = {} =>
                  {v[i].Version : i \in 2..Len(v)} = DOMAIN Design.APIVersions

\* Versions 2 and 10: the default scope, then 10, then 2.
C10_Witness ==
    /\ trace.op = "IterateVersions"
    /\ trace.names = << <<"2">>, <<"1", "0">> >>
    /\ trace.visited = <<DefaultScope, NamedScope(<<"1", "0">>), NamedScope(<<"2">>)>>
    /\ trace.err.nil

\* C11: APIVersionDefinition.IterateResources for a scope visits exactly the
\* resources that support the scope's version, in ascending order of name:
\* under the default scope the resources without version list, under a
\* named version the resources whose list contains it.
C11_ScopedResources ==
    (trace.op = "APIVersionDefinition.IterateResources" /\ trace.failing = {}) =>
        LET v == trace.visited
            listOf(n) == Design.Resources[n].APIVersions
        IN  /\ \A n \in DOMAIN Design.Resources :
                  (\E i \in DOMAIN v : v[i] = n)
                      <=> IF trace.arg.default THEN listOf(n) = <<>>
                          ELSE trace.arg.Version \in Range(listOf(n))
            /\ \A i \in DOMAIN v : v[i] \in DOMAIN Design.Resources
            /\ \A i, j \in DOMAIN v : i < j => StrLess(v[i], v[j])
            /\ \A n \in DOMAIN Design.Resources :
                  /\ listOf(n) = <<>> =>
                        (n \in Range(v) <=> trace.arg.default)
                  /\ (listOf(n) # <<>> /\ trace.arg.default) => n \notin Range(v)

\* Version 2 of an API whose resource zebra lists version 2, mango lists 10,
\* 2 and v3, and apple lists none: mango and zebra are visited.
C11_Witness ==
    /\ trace.op = "APIVersionDefinition.IterateResources"
    /\ trace.arg = NamedScope(<<"2">>)
    /\ DOMAIN Design.Resources = IterNames
    /\ Design.Resources[<<"a", "p", "p", "l", "e">>].APIVersions = <<>>
    /\ trace.names = << <<"z", "e", "b", "r", "a">>, <<"m", "a", "n", "g", "o">> >>
    /\ trace.visited = << <<"m", "a", "n", "g", "o">>, <<"z", "e", "b", "r", "a">> >>

\* The canonical form of an identifier as the graph's build computes it.
Canonical(id) == CanonicalIdentifier(id, mimeBareTypes)

\* The three identifiers of the media type application/vnd.foo.
FooIdentifiers ==
    { <<"a", "p", "p", "l", "i", "c", "a", "t", "i", "o", "n", "/", "v", "n", "d", ".", "f", "o", "o", "+", "x", "m", "l">>, <<"a", "p", "p", "l", "i", "c", "a", "t", "i", "o", "n", "/", "v", "n", "d", ".", "f", "o", "o", "+", "j", "s", "o", "n">>, <<"a", "p", "p", "l", "i", "c", "a", "t", "i", "o", "n", "/", "v", "n", "d", ".", "f", "o", "o">> }

\* C12: MediaTypeWithIdentifier(id) returns nil exactly when no registered
\* media type has the canonical identifier of id, and otherwise a registered
\* media type with that canonical identifier; a media type registered as
\* application/vnd.foo+xml or +json is found under each of the three
\* identifiers of application/vnd.foo.
C12_LookupByCanonicalIdentifier ==
    call.op = "MediaTypeWithIdentifier" =>
        LET registered == {Design.MediaTypes[k].Identifier : k \in DOMAIN Design.MediaTypes}
        IN  /\ call.result.nil
                <=> ~\E i \in registered : Canonical(i) = Canonical(call.arg)
            /\ ~call.result.nil =>
                  /\ call.result.Identifier \in registered
                  /\ Canonical(call.result.Identifier) = Canonical(call.arg)
            /\ (call.arg \in FooIdentifiers /\ registered \cap FooIdentifiers # {}) =>
                  /\ ~call.result.nil
                  /\ call.result.Identifier \in FooIdentifiers

\* The media type registered as application/vnd.foo+xml is found under
\* application/vnd.foo.
C12_Witness ==
    /\ call.op = "MediaTypeWithIdentifier"
    /\ call.arg = <<"a", "p", "p", "l", "i", "c", "a", "t", "i", "o", "n", "/", "v", "n", "d", ".", "f", "o", "o">>
    /\ <<"a", "p", "p", "l", "i", "c", "a", "t", "i", "o", "n", "/", "v", "n", "d", ".", "f", "o", "o">> \in DOMAIN Design.MediaTypes
    /\ Cardinality(DOMAIN Design.MediaTypes) > 1
    /\ ~call.result.nil
    /\ call.result.Identifier = <<"a", "p", "p", "l", "i", "c", "a", "t", "i", "o", "n", "/", "v", "n", "d", ".", "f", "o", "o", "+", "x", "m", "l">>

\* C13: the canonical form of a canonical identifier is that identifier,
\* and the canonical form of an identifier that does not parse as a media
\* type is the identifier itself.
C13_CanonicalIdempotent ==
    call.op = "CanonicalIdentifier" =>
        /\ call.again # <<>> => call.again[1] = call.result
        /\ ParseMediaType(call.arg).err => call.result = call.arg

\* An identifier with upper case, suffix and parameters whose canonical
\* form differs from it and was canonicalized again.
C13_Witness ==
    /\ call.op = "CanonicalIdentifier"
    /\ call.arg = <<"a", "/", "b", "+", "c", "+", "d", ";", "k", "=", "v", ";", "j", "=", "u">>
    /\ call.result = <<"a", "/", "b", ";", " ", "j", "=", "u", ";", " ", "k", "=", "v">>
    /\ call.again = << <<"a", "/", "b", ";", " ", "j", "=", "u", ";", " ", "k", "=", "v">> >>

\* The start of the name after each "/:" or "/*" of p that a name character
\* follows.
WildcardStarts(p) ==
    {i \in 3..Len(p) :
        /\ p[i - 2] = "/"
        /\ p[i - 1] \in {":", "*"}
        /\ IsNameChar(p[i])}

\* The name that starts at i: the characters up to the next one that is no
\* name character.
NameAt(p, i) ==
    LET stop == CHOOSE k \in i..(Len(p) + 1) :
                    /\ k = Len(p) + 1 \/ ~IsNameChar(p[k])
                    /\ \A j \in i..(k - 1) : IsNameChar(p[j])
    IN  SubSeq(p, i, stop - 1)

\* C14: ExtractWildcards(path) is the list of the names that follow "/:" or
\* "/*" in path, one per occurrence, from left to right; a ":" or "*" that
\* does not come right after a "/" gives no name.
C14_WildcardsInOrder ==
    call.op = "ExtractWildcards" =>
        LET p      == call.arg
            starts == WildcardStarts(p)
            wcs    == call.result
        IN  /\ Len(wcs) = Cardinality(starts)
            /\ \A i \in starts :
                  wcs[Cardinality({j \in starts : j <= i})] = NameAt(p, i)

\* /*b/:a-b:b has the wildcards b and a, in that order: the name a ends at
\* the dash and neither -b nor :b follows a slash.
C14_Witness ==
    /\ call.op = "ExtractWildcards"
    /\ call.arg = <<"/", "*", "b", "/", ":", "a", "-", "b", ":", "b">>
    /\ call.result = << <<"b">>, <<"a">> >>

\* The canonical action of the resource exists and has a route.
ValidCanonicalAction(d, r) ==
    /\ HasCanonicalAction(d, r)
    /\ d.Resources[r].Actions[CanonicalName(d, r)].Routes # <<>>

\* Two slashes in a row.
DoubleSlash(p) == \E i \in 1..(Len(p) - 1) : p[i] = "/" /\ p[i + 1] = "/"

\* C15: for a resource with a valid canonical action and any version scope,
\* FullPath computed a second time on the unchanged graph gives the string
\* it gave the first time, and that string has no two consecutive slashes.
C15_FullPathStable ==
    (/\ call.op = "ResourceDefinition.FullPath"
     /\ ValidCanonicalAction(Design, call.arg[1])) =>
        /\ Design = built
        /\ ~DoubleSlash(call.result)
        /\ call.again # <<>> => call.again[1] = call.result

\* The child resource with base path kids//:kid/ under version 2, computed
\* twice: the doubled slash of the base path is gone.
C15_Witness ==
    /\ call.op = "ResourceDefinition.FullPath"
    /\ call.arg = << <<"c", "h", "i", "l", "d", "r", "e", "n">>, NamedScope(<<"2">>) >>
    /\ Design.Resources[ <<"c", "h", "i", "l", "d", "r", "e", "n">> ].BasePath = <<"k", "i", "d", "s", "/", "/", ":", "k", "i", "d", "/">>
    /\ ValidCanonicalAction(Design, <<"c", "h", "i", "l", "d", "r", "e", "n">>)
    /\ ~HasParent(Design, <<"c", "h", "i", "l", "d", "r", "e", "n">>)
    /\ Design.APIVersions[ <<"2">> ].BasePath = <<"/", ":", "v", "e", "r">>
    /\ call.result = <<"/", ":", "v", "e", "r", "/", "k", "i", "d", "s", "/", ":", "k", "i", "d">>
    /\ call.again = << call.result >>

\* The resource's parent resolves and has no canonical action, or one
\* without routes.
ParentWithoutCanonicalPath(d, r) ==
    /\ HasParent(d, r)
    /\ ~ValidCanonicalAction(d, d.Resources[r].ParentName)

\* C17 as stated: with a parent that has no canonical action or no route of
\* it, FullPath is the empty path.
C17_EmptyPath ==
    (/\ call.op = "ResourceDefinition.FullPath"
     /\ ParentWithoutCanonicalPath(Design, call.arg[1])) =>
        call.result = <<>>

\* C17: with a parent that has no canonical action or no route of it,
\* FullPath returns, under every scope, the rooted clean form of the
\* resource's own base path: the parent adds nothing to it, and neither the
\* API's nor the version's base path is used.
C17_OwnBasePathOnly ==
    (/\ call.op = "ResourceDefinition.FullPath"
     /\ ParentWithoutCanonicalPath(Design, call.arg[1])) =>
        call.result = CleanJoin(<<>>, Design.Resources[call.arg[1]].BasePath)

\* The child of a parent whose only action is "list", in an API with base
\* path /api/:org, under version 2: the path is /children.
C17_Witness ==
    /\ call.op = "ResourceDefinition.FullPath"
    /\ call.arg = << <<"c", "h", "i", "l", "d", "r", "e", "n">>, NamedScope(<<"2">>) >>
    /\ HasParent(Design, <<"c", "h", "i", "l", "d", "r", "e", "n">>)
    /\ ~HasCanonicalAction(Design, <<"p", "a", "r", "e", "n", "t", "s">>)
    /\ Design.BasePath = <<"/", "a", "p", "i", "/", ":", "o", "r", "g">>
    /\ call.result = <<"/", "c", "h", "i", "l", "d", "r", "e", "n">>

\* C18: r.Merge(other) merges the headers by name: the receiver's header
\* names become the union of its own and other's, a header the receiver had
\* keeps its definition, a header only other had takes other's, and when
\* other has no headers the receiver's header set, an absent one included,
\* stays as it was.
C18_HeadersMergedByName ==
    mergeCall.called =>
        LET rh == mergeCall.receiver.Headers
            oh == IF mergeCall.other.nil THEN NilAtt ELSE mergeCall.other.Headers
            xh == mergeCall.result.Headers
        IN  /\ Names(xh) = Names(rh) \cup Names(oh)
            /\ \A n \in Names(rh) : xh.obj[n] = rh.obj[n]
            /\ \A n \in Names(oh) \ Names(rh) : xh.obj[n] = oh.obj[n]
            /\ Names(oh) = {} => xh = rh

\* The receiver has ETag and Location, other has Location and Vary: ETag
\* and Location stay the receiver's and Vary comes from other.
C18_Witness ==
    /\ mergeCall.called
    /\ Names(mergeCall.receiver.Headers) = { <<"E", "T", "a", "g">>, <<"L", "o", "c", "a", "t", "i", "o", "n">> }
    /\ ~mergeCall.other.nil
    /\ Names(mergeCall.other.Headers) = { <<"L", "o", "c", "a", "t", "i", "o", "n">>, <<"V", "a", "r", "y">> }
    /\ mergeCall.result.Headers.obj[ <<"E", "T", "a", "g">> ] = <<"m", "i", "n", "e">>
    /\ mergeCall.result.Headers.obj[ <<"L", "o", "c", "a", "t", "i", "o", "n">> ] = <<"m", "i", "n", "e">>
    /\ mergeCall.result.Headers.obj[ <<"V", "a", "r", "y">> ] = <<"t", "h", "e", "i", "r", "s">>

C16_GenerationReadsOnly ==
    gen.pc = "returned" => Design = built

\* C19: when a step of the visit of a version scope returns an error, so
\* that api.IterateVersions returns one, Generate returns an error and no
\* list of generated files.
C19_VersionErrorReturned ==
    (gen.pc = "returned" /\ ~gen.versionsErr.nil) =>
        /\ ~gen.err.nil
        /\ gen.files = <<>>

\* Generate has returned nil after api.IterateVersions had returned the
\* error of a failed contexts.FormatCode, with the full file list.
C19_ErrorDropped ==
    /\ gen.pc = "returned"
    /\ gen.versionsErr = StepError("contexts.FormatCode")
    /\ gen.err.nil
    /\ Len(gen.files) >= 3

\* Generate has returned and the child resource's Responses hold the
\* action's NotFound, which they did not hold before.
C16_ResourceResponsesWritten ==
    /\ gen.pc = "returned"
    /\ DOMAIN built.Resources[ <<"c", "h", "i", "l", "d", "r", "e", "n">> ].Responses = { <<"O", "K">> }
    /\ DOMAIN Design.Resources[ <<"c", "h", "i", "l", "d", "r", "e", "n">> ].Responses = { <<"O", "K">>, <<"N", "o", "t", "F", "o", "u", "n", "d">> }
    /\ Design.Resources[ <<"c", "h", "i", "l", "d", "r", "e", "n">> ].Responses[ <<"O", "K">> ] =
          Design.Resources[ <<"c", "h", "i", "l", "d", "r", "e", "n">> ].Actions[ <<"s", "h", "o", "w">> ].Responses[ <<"O", "K">> ]

\* C21: Finalize leaves every declared parameter of an action in Params
\* with the type it was declared with, a path wildcard included, and the
\* names it adds are all wildcards of some route under some version scope.
C21_DeclaredParamsKept ==
    \A ra \in FinalizedActions :
        LET act  == Design.Resources[ra[1]].Actions[ra[2]]
            decl == built.Resources[ra[1]].Actions[ra[2]].Params
        IN  /\ \A n \in Names(decl) :
                  /\ n \in Names(act.Params)
                  /\ act.Params.obj[n] = decl.obj[n]
            /\ Names(act.Params) \ Names(decl)
                  \subseteq WildcardsOverall(Design, ra[1], ra[2])

\* The finalized child action declared q as String and ver as Integer; ver
\* is a wildcard of the base path of a version and is still an Integer, q is
\* no wildcard and is kept, and the wildcards id and parentID were added.
C21_Witness ==
    /\ <<"c", "h", "i", "l", "d", "r", "e", "n">> \in finalized
    /\ LET act  == Design.Resources[ <<"c", "h", "i", "l", "d", "r", "e", "n">> ].Actions[ <<"s", "h", "o", "w">> ]
           decl == built.Resources[ <<"c", "h", "i", "l", "d", "r", "e", "n">> ].Actions[ <<"s", "h", "o", "w">> ].Params
       IN  /\ Names(decl) = { <<"q">>, <<"v", "e", "r">> }
           /\ <<"v", "e", "r">> \in WildcardsOverall(Design, <<"c", "h", "i", "l", "d", "r", "e", "n">>, <<"s", "h", "o", "w">>)
           /\ act.Params.obj[ <<"v", "e", "r">> ] = "Integer"
           /\ act.Params.obj[ <<"q">> ] = "String"
           /\ { <<"i", "d">>, <<"p", "a", "r", "e", "n", "t", "I", "D">> } \subseteq Names(act.Params) \ Names(decl)

\* The graph with the Responses, Params and QueryParams of the actions of
\* the resources in R blanked.
WithoutFinalizedFields(d, R) ==
    [d EXCEPT !.Resources =
        [r \in DOMAIN d.Resources |->
            IF r \notin R THEN d.Resources[r]
            ELSE [d.Resources[r] EXCEPT !.Actions =
                    [a \in DOMAIN d.Resources[r].Actions |->
                        [d.Resources[r].Actions[a] EXCEPT
                            !.Responses = <<>>, !.Params = NilAtt,
                            !.QueryParams = NilAtt]]]]]

\* C22: Finalize of a resource changes nothing but the Responses, Params
\* and QueryParams of that resource's actions, so that whatever resources
\* were finalized and in whatever order, each finalized resource is as its
\* Finalize leaves it on the graph as built.
C22_FinalizeFrame ==
    /\ WithoutFinalizedFields(Design, finalized) = WithoutFinalizedFields(built, finalized)
    /\ \A r \in finalized : Design.Resources[r] = Finalize(built, r).Resources[r]

\* Both resources are finalized; the child's action took the status 202 of
\* the resource-level response and the implicit parameter parentID, the
\* parent's action got parentID too, and the resource-level and API-level
\* responses are as declared.
C22_Witness ==
    /\ finalized = { <<"p", "a", "r", "e", "n", "t", "s">>, <<"c", "h", "i", "l", "d", "r", "e", "n">> }
    /\ LET child  == Design.Resources[ <<"c", "h", "i", "l", "d", "r", "e", "n">> ]
           parent == Design.Resources[ <<"p", "a", "r", "e", "n", "t", "s">> ]
       IN  /\ built.Resources[ <<"c", "h", "i", "l", "d", "r", "e", "n">> ].Actions[ <<"s", "h", "o", "w">> ].Responses[ <<"O", "K">> ].Status = 0
           /\ <<"O", "K">> \in DOMAIN child.Responses
           /\ child.Responses[ <<"O", "K">> ].Status = 202
           /\ child.Responses[ <<"O", "K">> ].Description = <<>>
           /\ child.Actions[ <<"s", "h", "o", "w">> ].Responses[ <<"O", "K">> ].Status = 202
           /\ <<"O", "K">> \in DOMAIN Design.Responses
           /\ Design.Responses[ <<"O", "K">> ].Description = <<"g">>
           /\ child.Actions[ <<"s", "h", "o", "w">> ].Responses[ <<"O", "K">> ].Description = <<"g">>
           /\ <<"p", "a", "r", "e", "n", "t", "I", "D">> \in Names(child.Actions[ <<"s", "h", "o", "w">> ].Params)
           /\ <<"p", "a", "r", "e", "n", "t", "I", "D">> \in Names(parent.Actions[ <<"s", "h", "o", "w">> ].Params)

\* The resources on the chain of ParentName references that starts at r and
\* resolve, cut off after n of them.
RECURSIVE ParentChain(_, _, _)
ParentChain(d, r, n) ==
    IF n = 0 THEN <<>>
    ELSE <<r>> \o (IF HasParent(d, r)
                   THEN ParentChain(d, d.Resources[r].ParentName, n - 1)
                   ELSE <<>>)

\* The chain from r comes back to no resource.
Acyclic(d, r) ==
    LET n == Cardinality(DOMAIN d.Resources)
    IN  Len(ParentChain(d, r, n + 1)) <= n

\* The elements of the full path of r, read off the chain: the scope's base
\* path where the chain ends, nothing above a parent without canonical
\* route, the first canonical route of each parent without its first slash
\* when it is absolute and below the parent's own elements otherwise, then
\* the base path of r.
RECURSIVE ChainSegments(_, _, _, _)
ChainSegments(d, r, ver, n) ==
    LET res == d.Resources[r]
        p   == res.ParentName
        own == Segments(res.BasePath)
    IN  IF n = 0 THEN <<>>
        ELSE IF ~HasParent(d, r) THEN Segments(ScopeBasePath(d, ver)) \o own
        ELSE IF ~ValidCanonicalAction(d, p) THEN own
        ELSE LET route == d.Resources[p].Actions[CanonicalName(d, p)].Routes[1]
             IN  IF HasPrefix(route, <<"/", "/">>) THEN Segments(route) \o own
                 ELSE ChainSegments(d, p, ver, n - 1) \o Segments(route) \o own

\* C23: on the resources registered so far, in whatever order they came, a
\* call of FullPath for a resource whose chain of ParentName references is
\* acyclic returns, with no more nested calls than the chain has resources;
\* and a call that returns gives the path read off the chain in the map of
\* resources as it is at the call.
C23_FullPathTerminates ==
    call.op = "ResourceDefinition.FullPath nested" =>
        LET r   == call.arg[1]
            n   == Cardinality(DOMAIN Design.Resources)
            run == call.result
        IN  /\ Acyclic(Design, r) =>
                  /\ ~run.overflow
                  /\ run.depth <= Len(ParentChain(Design, r, n))
            /\ ~run.overflow =>
                  run.path = RootedPath(Resolve(<<>>,
                                 ChainSegments(Design, r, call.arg[2], n + 1)))

\* c was registered first, then its parent b, then b's parent a: FullPath
\* of c nests three calls and goes through both parents.
C23_Witness ==
    /\ call.op = "ResourceDefinition.FullPath nested"
    /\ trace.names = << <<"c">>, <<"b">>, <<"a">> >>
    /\ call.arg[1] = <<"c">>
    /\ ParentChain(Design, <<"c">>, 4) = << <<"c">>, <<"b">>, <<"a">> >>
    /\ ~call.result.overflow
    /\ call.result.depth = 3
    /\ call.result.path = <<"/", "a", "p", "i", "/", "a", "/", ":", "i", "d", "/", "b", "/", ":", "i", "d", "/", "c">>
====
